---- MODULE Spec2Model ----
(***************************************************************************)
(* Model of the summarization / evaluation backend (fastapi/app).          *)
(*                                                                         *)
(* Spec      one request at a time through the routers, the batch service, *)
(*           the summarization service, the Colab client and the           *)
(*           evaluation service.                                           *)
(* SpecConc  concurrent first callers of get_evaluation_service (a sync    *)
(*           dependency, run by the framework in worker threads).          *)
(* SpecFactory  the two strategy factories applied to registered and      *)
(*           unregistered model keys.                                      *)
(***************************************************************************)
EXTENDS Integers, Sequences, FiniteSets, TLC

\* ------------------------------------------------------------------ bounds
MaxLen == 5
MaxRows == 2
MaxSamples == 2
NumThreads == 2

\* ------------------------------------------------------- program constants
max_sentences == 50
MinTextLength == 10
WindowWords == 5
min_repeat_length == 10

\* ------------------------------------------------------------------- texts
\* A text is a sequence of characters; Rep(n, c) is c repeated n times.
Rep(n, c) == [i \in 1..n |-> c]

NaN == <<"NaN">>

IsSpace(c) == c \in {" ", "\t", "\n", "\r", "\f"}

\* the positions of s, in increasing order, whose character is in cs (when
\* `inside`) or is not in cs (otherwise)
At(s, cs, inside) ==
    SelectSeq([i \in 1..Len(s) |-> IF (s[i] \in cs) = inside THEN i ELSE 0],
              LAMBDA i : i > 0)

\* str.strip(): s without its leading and trailing white space
Strip(s) ==
    LET inner == At(s, {" ", "\t", "\n", "\r", "\f"}, FALSE)
    IN  IF inner = <<>> THEN <<>> ELSE SubSeq(s, inner[1], inner[Len(inner)])

notna(cell) == cell # NaN
str(cell) == IF cell = NaN THEN <<"n", "a", "n">> ELSE cell

\* ------------------------------------------------------------- model keys
ModelType == {"phobert_vit5", "phobert_vit5_paraphrase", "vit5", "qwen"}

\* An exception is a record: its type and what its message carries (the
\* upstream response body, the column it names, the columns it lists).
NoBody == "-"
NoColumn == <<>>
NotListed == {<<"-">>}
NoExc == [type |-> "none", body |-> NoBody, column |-> NoColumn, available |-> NotListed]
Exc(t) == [NoExc EXCEPT !.type = t]
ExcBody(t, b) == [NoExc EXCEPT !.type = t, !.body = b]
\* ValueError(f"Cột '{column}' không tồn tại. Các cột có sẵn: {available}")
MissingColumn(col, available) ==
    [NoExc EXCEPT !.type = "ValueError", !.column = col, !.available = available]

\* The factories return the strategy or raise ValueError; nothing else is done.
get_preprocessor(model_type) ==
    IF model_type \notin {"vit5", "phobert_vit5", "qwen"}
    THEN [strategy |-> "none", exc |-> Exc("ValueError")]
    ELSE [exc |-> NoExc,
          strategy |-> CASE model_type = "vit5" -> "ViT5Preprocessor"
                         [] model_type = "phobert_vit5" -> "PhoBertViT5Preprocessor"
                         [] model_type = "qwen" -> "QwenPreprocessor"]

get_postprocessor(model_type) ==
    IF model_type \notin {"vit5", "phobert_vit5", "phobert_vit5_paraphrase", "qwen"}
    THEN [strategy |-> "none", exc |-> Exc("ValueError")]
    ELSE [exc |-> NoExc,
          strategy |-> CASE model_type = "vit5" -> "ViT5Postprocessor"
                         [] model_type = "phobert_vit5" -> "PhoBertViT5Postprocessor"
                         [] model_type = "phobert_vit5_paraphrase" -> "PhoBertViT5Postprocessor"
                         [] model_type = "qwen" -> "QwenPostprocessor"]

\* summarization_service.py: the factory call, then the strategy's method on
\* the text; `processed` tells whether the text was touched.
run_preprocess(model_type, text) ==
    LET p == get_preprocessor(model_type) IN
    IF p.exc # NoExc
    THEN [factory |-> "preprocessor", strategy |-> "none", exc |-> p.exc,
          processed |-> FALSE]
    ELSE [factory |-> "preprocessor", strategy |-> p.strategy, exc |-> NoExc,
          processed |-> TRUE]

run_postprocess(model_type, text) ==
    LET p == get_postprocessor(model_type) IN
    IF p.exc # NoExc
    THEN [factory |-> "postprocessor", strategy |-> "none", exc |-> p.exc,
          processed |-> FALSE]
    ELSE [factory |-> "postprocessor", strategy |-> p.strategy, exc |-> NoExc,
          processed |-> TRUE]

\* ------------------------------------------------------------------- state
VARIABLES
    pc,             \* position of the request being handled
    req,            \* the request being handled
    idx,            \* batch loop: 1-based position of the next row
    results,        \* batch loop: the BatchItemResults appended so far
    successful,     \* batch loop counter
    failed,         \* batch loop counter
    response,       \* the HTTP response of the last finished request
    pre,            \* SummarizationService.summarize: the preprocess_result
    posts,          \* client.post calls made by the current summarize call
    inflight,       \* the number of POST {url}/summarize outstanding
    outcome,        \* how the last POST ended
    exc,            \* exception raised by the current service call
    summary,        \* summary returned by the current service call
    cached_url,     \* ColabClient._cached_url ("" is None or empty)
    instances,      \* every EvaluationService constructed in this process
    evaluation_service, \* the global _evaluation_service (0 is None)
    loads,          \* evaluate.load calls made in this process, per backend
    computes,       \* metric computations made for the current request
    metrics,        \* the dict returned by the last evaluate_* call
    tpc,            \* SpecConc: position of each worker thread
    tsvc,           \* SpecConc: the instance each thread obtained
    fin,            \* SpecFactory: the key and text handed to a factory
    fout,           \* SpecFactory: what came back
    tin,            \* SpecText: the arguments of one text-utility call
    tout,           \* SpecText: what the call returned
    run,            \* SpecRuns: the batch runs in progress
    gist,           \* SpecRuns: the text the Gist serves at the moment
    loop            \* SpecLoop: the local variables of remove_repetition

reqVars == <<pc, req, idx, results, successful, failed, response>>
callVars == <<pre, posts, inflight, outcome, exc, summary>>
evalVars == <<instances, evaluation_service, loads, computes, metrics>>
vars ==
    <<reqVars, callVars, cached_url, evalVars, tpc, tsvc, fin, fout, tin, tout, run, gist, loop>>

\* what the actions of one specification leave alone
notSpec == <<tpc, tsvc, fin, fout, tin, tout, run, gist, loop>>
notConc == <<reqVars, callVars, cached_url, fin, fout, tin, tout, run, gist, loop>>
notPure == <<reqVars, callVars, cached_url, evalVars, tpc, tsvc, tin, tout, run, gist, loop>>
notLoop == <<reqVars, callVars, cached_url, evalVars, tpc, tsvc, fin, fout, run, gist>>
notText == <<notLoop, loop>>
notRuns == <<reqVars, callVars, evalVars, tpc, tsvc, fin, fout, tin, tout, loop>>

\* ------------------------------------------------------------ value spaces
\* the batch runs of SpecRuns and what the Gist may serve over time
Runs == {"A", "B"}
NoRun == [pc |-> "off", rows |-> 0, row |-> 0, url |-> ""]
\* Python's None where a text or an Optional[float] is expected
None == <<"None">>
NoMetric == -1

NoOutcome == [kind |-> "none", body |-> NoBody]
PostOutcomes ==
    {[kind |-> k, body |-> NoBody] : k \in {"ok", "ok_nosummary", "badjson", "timeout", "connect"}}
    \cup {[kind |-> "status", body |-> b] : b \in {"body1", "body2"}}

NoSummary == [raw |-> "none", by |-> "none"]
NoPre == [strategy |-> "none", sentences |-> FALSE]
NoMetrics == [rouge1 |-> NoMetric, rouge2 |-> NoMetric, rougeL |-> NoMetric,
              bleu |-> NoMetric, bert_score |-> NoMetric, total_samples |-> NoMetric]
NoResponse == [status |-> 0, detail |-> NoExc, total_items |-> 0,
               successful_items |-> 0, failed_items |-> 0, summary |-> NoSummary,
               metrics |-> NoMetrics]
NoLoads == [rouge |-> 0, bleu |-> 0, bertscore |-> 0]

NoReq == [kind |-> "none", model |-> "none", ext |-> "none", cols |-> {},
          text_column |-> "none", reference_column |-> "none", rows |-> <<>>,
          calculate_bert |-> FALSE, predictions |-> <<>>, references |-> <<>>,
          file_read |-> FALSE]

\* file_content = await file.read(): the upload's content has been consumed
Read(r) == [r EXCEPT !.file_read = TRUE]

NoInput == [key |-> "none", text |-> <<>>]
NoOutput == [factory |-> "none", strategy |-> "none", exc |-> NoExc, processed |-> FALSE]

NoCall == [op |-> "none", text |-> <<>>, n |-> 0, parts |-> <<>>]
NoLoop == [pc |-> "off", words |-> <<>>, i |-> 0, result |-> <<>>, seen_phrases |-> {}]
NoResult == [calls |-> 0, text |-> <<>>, again |-> <<>>, info |-> <<>>]

Resp(st, e) == [NoResponse EXCEPT !.status = st, !.detail = e]

\* ------------------------------------------------------------------ Init
\* the process after start-up: no request, nothing cached, nothing loaded
Started ==
    /\ pc = "idle"
    /\ req = NoReq
    /\ idx = 1
    /\ results = <<>>
    /\ successful = 0
    /\ failed = 0
    /\ response = NoResponse
    /\ pre = NoPre
    /\ posts = 0
    /\ inflight = 0
    /\ outcome = NoOutcome
    /\ exc = NoExc
    /\ summary = NoSummary
    /\ cached_url = ""
    /\ instances = <<>>
    /\ evaluation_service = 0
    /\ loads = NoLoads
    /\ computes = NoLoads
    /\ metrics = NoMetrics
    /\ tsvc = [t \in 1..NumThreads |-> 0]
    /\ tout = NoResult
    /\ run = [r \in Runs |-> NoRun]
    /\ gist = "url1"
    /\ loop = NoLoop

Init ==
    /\ Started
    /\ tpc = [t \in 1..NumThreads |-> "off"]
    /\ fin = NoInput
    /\ fout = NoOutput
    /\ tin = NoCall

Idle == pc = "idle"

\* A new request starts from a clean per-request state.
Start(r, p, rsp) ==
    /\ Idle
    /\ req' = r
    /\ pc' = p
    /\ idx' = 1
    /\ results' = <<>>
    /\ successful' = 0
    /\ failed' = 0
    /\ response' = rsp
    /\ pre' = NoPre
    /\ posts' = 0
    /\ inflight' = 0
    /\ outcome' = NoOutcome
    /\ exc' = NoExc
    /\ summary' = NoSummary
    /\ computes' = NoLoads
    /\ metrics' = NoMetrics

\* the handler goes on to its next step
Begin(r, p) == Start(r, p, NoResponse)

\* the handler raises before doing anything else: the request is answered
Reject(r, st, e) == Start(r, "done", Resp(st, e))

\* --------------------------------------------------------- text utilities
\* re.sub(old, c, s) for a literal pattern `old` (a character sequence whose
\* occurrences cannot overlap) and a replacement of one character
Replace(s, old, c) ==
    LET n == Len(old)
        match(i) == i >= 1 /\ i + n - 1 <= Len(s) /\ SubSeq(s, i, i + n - 1) = old
        keep == SelectSeq([i \in 1..Len(s) |->
                              IF \E j \in (i - n + 1)..(i - 1) : match(j) THEN 0 ELSE i],
                          LAMBDA i : i > 0)
    IN  [k \in 1..Len(keep) |-> IF match(keep[k]) THEN c ELSE s[keep[k]]]

\* re.sub('[cs]+', c, s): every maximal run of characters of cs becomes c
\* (a character of a run after its first is marked "" and dropped)
CollapseRuns(s, cs, c) ==
    SelectSeq([i \in 1..Len(s) |->
                  IF s[i] \notin cs THEN s[i]
                  ELSE IF i > 1 /\ s[i - 1] \in cs THEN "" ELSE c],
              LAMBDA x : x # "")

\* the pieces of s between the positions seps of its separators
Between(s, seps, piece) ==
    [k \in 1..(Len(seps) + 1) |->
        (IF k = 1 THEN piece ELSE <<>>)
        \o SubSeq(s, IF k = 1 THEN 1 ELSE seps[k - 1] + 1,
                     IF k > Len(seps) THEN Len(s) ELSE seps[k] - 1)]

\* s.split(sep) for a one-character separator: always at least one piece;
\* `piece` is what the first piece starts with
SplitOn(s, sep, piece) == Between(s, At(s, {sep}, TRUE), piece)

\* sep.join(pieces)
RECURSIVE Join(_, _)
Join(pieces, sep) ==
    IF pieces = <<>> THEN <<>>
    ELSE IF Len(pieces) = 1 THEN pieces[1]
         ELSE pieces[1] \o <<sep>> \o Join(Tail(pieces), sep)

NonEmpty(piece) == piece # <<>>

\* text.split(): the maximal runs of non-whitespace characters
Words(text) ==
    LET RECURSIVE Scan(_, _)
        \* `word` is the run of non-whitespace characters read so far
        Scan(rest, word) ==
            IF rest # <<>> /\ ~IsSpace(Head(rest))
            THEN Scan(Tail(rest), Append(word, Head(rest)))
            ELSE (IF word = <<>> THEN <<>> ELSE <<word>>)
                 \o (IF rest = <<>> THEN <<>> ELSE Scan(Tail(rest), <<>>))
    IN  Scan(text, <<>>)

\* ---------------------------------------------------------- metric libraries
\* The word segmenter and the metric backends are libraries.  They are
\* modelled by their definitions: whitespace-delimited tokens, n-gram and
\* longest-common-subsequence overlap (F1) for ROUGE, n-gram precision up to
\* order 4 without smoothing, with the brevity penalty, for BLEU.  A score is
\* 0, 100 (that is 1.0) or Partial (anything strictly between).
Partial == 50
max_order == 4


\* ViTokenizer.tokenize on a list of words: compounds get an inner joiner
RECURSIVE Segment(_)
Segment(ws) ==
    IF ws = <<>> THEN <<>>
    \* the one multi-syllable word of the segmenter's dictionary
    ELSE IF Len(ws) >= 2 /\ SubSeq(ws, 1, 2) = <<Rep(1, "b"), Rep(1, "c")>>
         THEN <<ws[1] \o <<"_">> \o ws[2]>> \o Segment(SubSeq(ws, 3, Len(ws)))
         ELSE <<Head(ws)>> \o Segment(Tail(ws))

ViTokenize(text) == Join(Segment(Words(text)), " ")

\* the n-grams of a token list, in order
NGramsOf(toks, n) == [i \in 1..(Len(toks) - n + 1) |-> SubSeq(toks, i, i + n - 1)]

\* clipped matches of the n-grams P against the n-grams R, over the distinct
\* n-grams S of P
RECURSIVE Clipped(_, _, _)
Clipped(S, P, R) ==
    IF S = {} THEN 0
    ELSE LET g == CHOOSE x \in S : TRUE
             Count(grams) == Cardinality({i \in DOMAIN grams : grams[i] = g})
             Min2(a, b) == IF a <= b THEN a ELSE b
         IN  Min2(Count(P), Count(R)) + Clipped(S \ {g}, P, R)

Overlap(P, R) == Clipped({P[i] : i \in DOMAIN P}, P, R)

RECURSIVE LCS(_, _)
LCS(a, b) ==
    IF a = <<>> \/ b = <<>> THEN 0
    ELSE IF Head(a) = Head(b) THEN 1 + LCS(Tail(a), Tail(b))
    ELSE LET skip_a == LCS(Tail(a), b)
             skip_b == LCS(a, Tail(b))
         IN  IF skip_a >= skip_b THEN skip_a ELSE skip_b

\* F1 = 2m / (p + r) for m matches among p predicted and r reference items
F1(m, np, nr) == IF m = 0 THEN 0 ELSE IF 2 * m = np + nr THEN 100 ELSE Partial

\* rouge.compute(predictions, references, use_stemmer = False)
rouge_compute(predictions, references) ==
    LET RougeN(p, r, n) ==
            F1(Overlap(NGramsOf(Words(p), n), NGramsOf(Words(r), n)),
               Len(NGramsOf(Words(p), n)), Len(NGramsOf(Words(r), n)))
        RougeL(p, r) == F1(LCS(Words(p), Words(r)), Len(Words(p)), Len(Words(r)))
        \* the mean of per-pair scores
        Mean(scores) ==
            IF \A i \in DOMAIN scores : scores[i] = 0 THEN 0
            ELSE IF \A i \in DOMAIN scores : scores[i] = 100 THEN 100
            ELSE Partial
    IN
    [rouge1 |-> Mean([i \in DOMAIN predictions |-> RougeN(predictions[i], references[i], 1)]),
     rouge2 |-> Mean([i \in DOMAIN predictions |-> RougeN(predictions[i], references[i], 2)]),
     rougeL |-> Mean([i \in DOMAIN predictions |-> RougeL(predictions[i], references[i])])]

RECURSIVE SumSeq(_)
SumSeq(xs) == IF xs = <<>> THEN 0 ELSE Head(xs) + SumSeq(Tail(xs))

\* bleu.compute(predictions, references): references[i] is the list of the
\* references of predictions[i]; matches and lengths are summed over the pairs
bleu_compute(predictions, references) ==
    LET matches(n) ==
            SumSeq([i \in DOMAIN predictions |->
                      Overlap(NGramsOf(Words(predictions[i]), n),
                              NGramsOf(Words(references[i][1]), n))])
        possible(n) ==
            SumSeq([i \in DOMAIN predictions |-> Len(NGramsOf(Words(predictions[i]), n))])
        translation_length == SumSeq([i \in DOMAIN predictions |-> Len(Words(predictions[i]))])
        reference_length == SumSeq([i \in DOMAIN predictions |-> Len(Words(references[i][1]))])
    IN  IF \E n \in 1..max_order : matches(n) = 0 THEN 0
        ELSE IF /\ \A n \in 1..max_order : matches(n) = possible(n)
                /\ translation_length >= reference_length
             THEN 100
             ELSE Partial

\* -------------------------------------------------------- EvaluationService
EvaluationService == [rouge |-> FALSE, bleu |-> FALSE, bert_loaded |-> FALSE]

\* get_evaluation_service run to completion by one caller
get_evaluation_service(insts, g) ==
    IF g = 0
    THEN [instances |-> Append(insts, EvaluationService), g |-> Len(insts) + 1]
    ELSE [instances |-> insts, g |-> g]

\* An evaluation context E: the instance used, the process-wide load counts,
\* the computations made for this request.
Ctx(svc, l, c) == [svc |-> svc, loads |-> l, computes |-> c]

load_rouge_bleu(E) ==
    [E EXCEPT !.svc.rouge = TRUE,
              !.svc.bleu = TRUE,
              !.loads.rouge = @ + (IF E.svc.rouge THEN 0 ELSE 1),
              !.loads.bleu = @ + (IF E.svc.bleu THEN 0 ELSE 1)]

load_bertscore_unguarded(E) ==
    [E EXCEPT !.svc.bert_loaded = TRUE, !.loads.bertscore = @ + 1]

load_bertscore(E) ==
    IF ~E.svc.bert_loaded
    THEN [E EXCEPT !.svc.bert_loaded = TRUE, !.loads.bertscore = @ + 1]
    ELSE E

\* A computation of a backend returns its score or raises; `fail` names the
\* one that raises.
FailPoints(calculate_bert) ==
    {"none", "rouge", "bleu"} \cup (IF calculate_bert THEN {"bertscore"} ELSE {})

\* the backends raise on predictions and references of different lengths
Raises(which, predictions, references, fail) ==
    fail = which \/ Len(predictions) # Len(references)

preprocess_vietnamese(texts) == [i \in DOMAIN texts |-> ViTokenize(texts[i])]


calculate_rouge(E, predictions, references, fail) ==
    LET E1 == load_rouge_bleu(E)
        E2 == [E1 EXCEPT !.computes.rouge = @ + 1]
        preds_tokenized == preprocess_vietnamese(predictions)
        refs_tokenized == preprocess_vietnamese(references)
    IN  IF Raises("rouge", predictions, references, fail)
        THEN [E |-> E2, exc |-> Exc("MetricError"),
              value |-> [rouge1 |-> NoMetric, rouge2 |-> NoMetric, rougeL |-> NoMetric]]
        ELSE [E |-> E2, value |-> rouge_compute(preds_tokenized, refs_tokenized),
              exc |-> NoExc]

\* the references handed over as they came, not segmented
calculate_bleu_raw_references(E, predictions, references, fail) ==
    LET E1 == load_rouge_bleu(E)
        E2 == [E1 EXCEPT !.computes.bleu = @ + 1]
        preds_tokenized == preprocess_vietnamese(predictions)
        refs_formatted == [i \in DOMAIN references |-> <<references[i]>>]
    IN  IF Raises("bleu", predictions, references, fail)
        THEN [E |-> E2, value |-> NoMetric, exc |-> Exc("MetricError")]
        ELSE [E |-> E2, value |-> bleu_compute(preds_tokenized, refs_formatted),
              exc |-> NoExc]

calculate_bleu(E, predictions, references, fail) ==
    LET E1 == load_rouge_bleu(E)
        E2 == [E1 EXCEPT !.computes.bleu = @ + 1]
        preds_tokenized == preprocess_vietnamese(predictions)
        refs_tokenized == preprocess_vietnamese(references)
        refs_formatted == [i \in DOMAIN refs_tokenized |-> <<refs_tokenized[i]>>]
    IN  IF Raises("bleu", predictions, references, fail)
        THEN [E |-> E2, value |-> NoMetric, exc |-> Exc("MetricError")]
        ELSE [E |-> E2, value |-> bleu_compute(preds_tokenized, refs_formatted),
              exc |-> NoExc]

calculate_bertscore(E, predictions, references, fail) ==
    LET E1 == load_bertscore(E)
        E2 == [E1 EXCEPT !.computes.bertscore = @ + 1]
    IN  IF Raises("bertscore", predictions, references, fail)
        THEN [E |-> E2, value |-> NoMetric, exc |-> Exc("MetricError")]
        \* bert_metric.compute: the mean F1 of the pairs
        ELSE [E |-> E2, value |-> IF predictions = references THEN 100 ELSE 0,
              exc |-> NoExc]

\* the body shared by evaluate_single and evaluate_batch: ROUGE, BLEU, then
\* BERTScore only when asked for, else the 0.0 it was initialised with
evaluate(E, predictions, references, calculate_bert, fail, total_samples) ==
    LET R == calculate_rouge(E, predictions, references, fail) IN
    IF R.exc # NoExc THEN [E |-> R.E, metrics |-> NoMetrics, exc |-> R.exc]
    ELSE
    LET B == calculate_bleu(R.E, predictions, references, fail) IN
    IF B.exc # NoExc THEN [E |-> B.E, metrics |-> NoMetrics, exc |-> B.exc]
    ELSE
    LET S == IF calculate_bert
             THEN calculate_bertscore(B.E, predictions, references, fail)
             ELSE [E |-> B.E, value |-> 0, exc |-> NoExc]
    IN
    IF S.exc # NoExc THEN [E |-> S.E, metrics |-> NoMetrics, exc |-> S.exc]
    ELSE [E |-> S.E,
          metrics |-> [rouge1 |-> R.value.rouge1, rouge2 |-> R.value.rouge2,
                       rougeL |-> R.value.rougeL,
                       bleu |-> B.value, bert_score |-> S.value,
                       total_samples |-> total_samples],
          exc |-> NoExc]

evaluate_single(E, prediction, reference, calculate_bert, fail) ==
    evaluate(E, <<prediction>>, <<reference>>, calculate_bert, fail, NoMetric)

\* the first pair scored on its own, then the others
evaluate_batch_by_pair(E, predictions, references, calculate_bert, fail) ==
    LET first == evaluate(E, <<predictions[1]>>, <<references[1]>>, calculate_bert, fail,
                          Len(predictions))
    IN  IF first.exc # NoExc \/ Len(predictions) = 1 \/ Len(references) = 1 THEN first
        ELSE evaluate(first.E, Tail(predictions), Tail(references), calculate_bert, fail,
                      Len(predictions))

evaluate_batch(E, predictions, references, calculate_bert, fail) ==
    evaluate(E, predictions, references, calculate_bert, fail, Len(predictions))

\* The evaluation context of the running request and its write-back.
TheCtx(G) == Ctx(G.instances[G.g], loads, computes)

Store(G, E) ==
    /\ instances' = [G.instances EXCEPT ![G.g] = E.svc]
    /\ evaluation_service' = G.g
    /\ loads' = E.loads
    /\ computes' = E.computes

\* Depends(get_evaluation_service) / Depends(get_batch_service) resolved and
\* nothing evaluated yet.
Resolve ==
    LET G == get_evaluation_service(instances, evaluation_service) IN
    /\ instances' = G.instances
    /\ evaluation_service' = G.g

\* The response has been sent: the request-scoped objects are dropped.
Respond ==
    /\ pc = "done"
    /\ pc' = "idle"
    /\ req' = NoReq
    /\ idx' = 1
    /\ results' = <<>>
    /\ successful' = 0
    /\ failed' = 0
    /\ response' = NoResponse
    /\ pre' = NoPre
    /\ posts' = 0
    /\ inflight' = 0
    /\ outcome' = NoOutcome
    /\ exc' = NoExc
    /\ summary' = NoSummary
    /\ computes' = NoLoads
    /\ metrics' = NoMetrics
    /\ UNCHANGED <<cached_url, instances, evaluation_service, loads, notSpec>>

\* ------------------------------------------- SummarizationService.summarize
\* preprocess, going on to the server whether or not it raised
PreprocessThenCallAnyway ==
    /\ pc = "pre"
    /\ LET p == run_preprocess(req.model, <<>>) IN
         IF p.exc # NoExc
         THEN /\ exc' = exc
              /\ pc' = "url"
              /\ pre' = pre
         ELSE /\ pre' = [strategy |-> p.strategy,
                         sentences |-> (p.strategy = "PhoBertViT5Preprocessor")]
              /\ pc' = "url"
              /\ exc' = exc
    /\ UNCHANGED <<req, idx, results, successful, failed, response>>
    /\ UNCHANGED <<posts, inflight, outcome, summary>>
    /\ UNCHANGED <<cached_url, evalVars, notSpec>>

\* preprocess: phobert_vit5 yields a sentence list, the others a single text.
Preprocess ==
    /\ pc = "pre"
    /\ LET p == run_preprocess(req.model, <<>>) IN
         IF p.exc # NoExc
         THEN /\ exc' = p.exc
              /\ pc' = "ret"
              /\ pre' = pre
         ELSE /\ pre' = [strategy |-> p.strategy,
                         sentences |-> (p.strategy = "PhoBertViT5Preprocessor")]
              /\ pc' = "url"
              /\ exc' = exc
    /\ UNCHANGED <<req, idx, results, successful, failed, response>>
    /\ UNCHANGED <<posts, inflight, outcome, summary>>
    /\ UNCHANGED <<cached_url, evalVars, notSpec>>

\* ColabClient.get_colab_url(force_refresh = False), first statement of
\* ColabClient.summarize: the cache, else one GET of the Gist.
GetColabUrl ==
    /\ pc = "url"
    /\ IF cached_url # ""
       THEN /\ pc' = "send"
            /\ UNCHANGED <<cached_url, exc>>
       ELSE \/ /\ exc' = Exc("ConnectionError")
               /\ pc' = "ret"
               /\ UNCHANGED cached_url
            \/ \E g \in {"", "url1"} :
               /\ cached_url' = g
               /\ pc' = "send"
               /\ UNCHANGED exc
    /\ UNCHANGED <<req, idx, results, successful, failed, response>>
    /\ UNCHANGED <<pre, posts, inflight, outcome, summary>>
    /\ UNCHANGED <<evalVars, notSpec>>

\* client.post(f"{url}/summarize"): with an empty url no request leaves the
\* process and the client raises at once (caught by `except Exception`).
PostSummarize ==
    /\ pc = "send"
    /\ posts' = posts + 1
    /\ IF cached_url = ""
       THEN /\ outcome' = [kind |-> "connect", body |-> NoBody]
            /\ exc' = Exc("ConnectionError")
            /\ pc' = "ret"
            /\ UNCHANGED inflight
       ELSE /\ inflight' = inflight + 1
            /\ pc' = "wait"
            /\ UNCHANGED <<outcome, exc>>
    /\ UNCHANGED <<req, idx, results, successful, failed, response>>
    /\ UNCHANGED <<pre, summary>>
    /\ UNCHANGED <<cached_url, evalVars, notSpec>>

\* the text of colab_response.get("summary", "")
SummaryText(s) == IF s.raw = "text" THEN <<"s">> ELSE <<>>

\* The except clauses of ColabClient.summarize.
ColabErrorAllConnection(o) ==
    IF o.kind \in {"timeout", "status", "connect", "badjson"}
    THEN Exc("ConnectionError")
    ELSE NoExc

ColabError(o) ==
    CASE o.kind = "timeout" -> Exc("TimeoutError")
      [] o.kind = "status" -> ExcBody("RuntimeError", o.body)
      [] o.kind \in {"connect", "badjson"} -> Exc("ConnectionError")
      [] OTHER -> NoExc

\* where summarize goes after the n-th POST ended with o: on, or out by raise
AfterPostRetry(o, n) ==
    IF ColabError(o) = NoExc THEN "postproc" ELSE IF n < 2 THEN "send" ELSE "ret"

AfterPost(o, n) == IF ColabError(o) = NoExc THEN "postproc" ELSE "ret"

\* The POST ends: response, timeout, non-2xx or another failure.
ColabRespond ==
    /\ pc = "wait"
    /\ \E o \in PostOutcomes :
         /\ outcome' = o
         /\ inflight' = inflight - 1
         /\ exc' = ColabError(o)
         /\ pc' = AfterPost(o, posts)
         /\ IF ColabError(o) = NoExc
            THEN summary' = [raw |-> IF o.kind = "ok" THEN "text" ELSE "", by |-> "none"]
            ELSE summary' = summary
    /\ UNCHANGED <<req, idx, results, successful, failed, response>>
    /\ UNCHANGED <<pre, posts>>
    /\ UNCHANGED <<cached_url, evalVars, notSpec>>

\* get_postprocessor(model_type).postprocess(colab_response.get("summary", ""))
Postprocess ==
    /\ pc = "postproc"
    /\ LET p == run_postprocess(req.model, SummaryText(summary)) IN
         IF p.exc # NoExc
         THEN /\ exc' = p.exc
              /\ summary' = NoSummary
         ELSE /\ summary' = [summary EXCEPT !.by = p.strategy]
              /\ exc' = exc
    /\ pc' = "ret"
    /\ UNCHANGED <<req, idx, results, successful, failed, response>>
    /\ UNCHANGED <<pre, posts, inflight, outcome>>
    /\ UNCHANGED <<cached_url, evalVars, notSpec>>

\* ------------------------------------------- POST /summarization/summarize
ReceiveSummarize ==
    /\ Idle
    /\ \E m \in ModelType :
         Begin([NoReq EXCEPT !.kind = "summarize", !.model = m], "pre")
    /\ UNCHANGED <<cached_url, instances, evaluation_service, loads, notSpec>>

SummarizeStatus(e) ==
    CASE e.type = "none" -> 200
      [] e.type = "ConnectionError" -> 503
      [] e.type = "TimeoutError" -> 504
      [] OTHER -> 500

SummarizeReturn ==
    /\ pc = "ret"
    /\ req.kind = "summarize"
    /\ response' = [Resp(SummarizeStatus(exc), exc) EXCEPT !.summary = summary]
    /\ pc' = "done"
    /\ UNCHANGED <<req, idx, results, successful, failed>>
    /\ UNCHANGED <<callVars, cached_url, evalVars, notSpec>>

\* ------------------------------------------------------------ uploaded files
cText == <<"t", "e", "x", "t">>
cRef == <<"r", "e", "f">>
cSum == <<"s", "u", "m">>

\* how the uploaded filename ends ("" is an upload without a filename)
Exts == {".csv", ".xls", ".txt", ""}
SupportedExts == {".csv", ".xlsx", ".xls"}

TextCells == {NaN, Rep(MinTextLength - 1, "a"), Rep(MinTextLength, "a")}
RefCells == {NaN, <<"r">>}
ScoreCells == {NaN, <<" ">>, <<"a">>}

\* df.columns = df.columns.str.strip()
Columns(cols) == {Strip(c) : c \in cols}

TablesOver(cols, scoring) ==
    LET CellsOf(col) ==
            IF scoring THEN ScoreCells ELSE IF col = cText THEN TextCells ELSE RefCells
        RowsOver ==
            {r \in [Columns(cols) -> TextCells \cup RefCells \cup ScoreCells] :
                \A c \in Columns(cols) : r[c] \in CellsOf(c)}
    IN  UNION {[1..n -> RowsOver] : n \in 0..MaxRows}


\* for idx, row in df.iterrows(): the label of the i-th row of a freshly
\* parsed frame (a RangeIndex, from 0)
RowLabel(i) == i
RowIndex(i) == i - 1

\* row.get(column): the cell, or None (which pd.notna rejects like NaN) when absent
RowGet(row, col) == IF col \in DOMAIN row THEN row[col] ELSE NaN

\* the router's check: file.filename.endswith(('.csv', '.xlsx', '.xls'))
AnyExt(r) == TRUE
HasSupportedExt(r) == r.ext \in SupportedExts

\* BatchService.parse_file after the read: the format and column checks
parse_file(r, text_column, reference_column) ==
    IF r.ext \notin SupportedExts THEN Exc("ValueError")
    ELSE IF text_column \notin Columns(r.cols)
         THEN MissingColumn(text_column, Columns(r.cols))
    ELSE IF reference_column # NoColumn /\ reference_column \notin Columns(r.cols)
         THEN MissingColumn(reference_column, NotListed)
    ELSE NoExc

BatchItemResult(index, original_text, summ, reference_summary, model_used, success, error) ==
    [index |-> index, original_text |-> original_text, summary |-> summ,
     reference_summary |-> reference_summary, model_used |-> model_used,
     success |-> success, error |-> error,
     rouge1 |-> NoMetric, rouge2 |-> NoMetric, rougeL |-> NoMetric,
     bleu |-> NoMetric, bert_score |-> NoMetric]

\* ---------------------------------------- POST /summarization/batch-upload

\* batch_upload up to the row loop of process_batch: extension check,
\* ModelType(model), parse_file.
ReceiveBatchUpload ==
    /\ Idle
    /\ \E e \in Exts, m \in ModelType \cup {"made_up_model"},
          cs \in {{cText}, {<<" ">> \o cText \o <<" ">>, cRef}, {cRef}},
          rc \in {NoColumn, cRef} :
       \E rows \in TablesOver(cs, FALSE) :
         LET r == [NoReq EXCEPT !.kind = "batch_upload", !.model = m, !.ext = e,
                                !.cols = cs, !.rows = rows,
                                !.text_column = cText, !.reference_column = rc]
         IN  IF ~HasSupportedExt(r) \/ m \notin ModelType
             THEN Reject(r, 400, Exc("HTTPException"))
             ELSE IF parse_file(r, cText, rc) # NoExc
             THEN Reject(Read(r), 400, parse_file(r, cText, rc))
             ELSE Begin(Read(r), "row")
    /\ Resolve
    /\ UNCHANGED <<cached_url, loads, notSpec>>

RowText == str(req.rows[idx][req.text_column])
RowReference ==
    IF req.reference_column # NoColumn /\ notna(RowGet(req.rows[idx], req.reference_column))
    THEN str(req.rows[idx][req.reference_column])
    ELSE None

\* SummarizeRequest(text = ..., min_length = 10)
SummarizeRequestValid(text) == Len(text) >= MinTextLength

\* One iteration whose SummarizeRequest fails validation: the except branch.
BatchRowInvalid ==
    /\ pc = "row"
    /\ req.kind = "batch_upload"
    /\ idx <= Len(req.rows)
    /\ ~SummarizeRequestValid(RowText)
    /\ results' = Append(results,
           BatchItemResult(RowIndex(idx), RowText, <<>>, RowReference, req.model, FALSE,
                           Exc("ValidationError")))
    /\ failed' = failed + 1
    /\ idx' = idx + 1
    /\ UNCHANGED <<pc, req, successful, response>>
    /\ UNCHANGED <<callVars, cached_url, evalVars, notSpec>>

\* One iteration that reaches `await self.summarization_service.summarize`.
BatchRowCall ==
    /\ pc = "row"
    /\ req.kind = "batch_upload"
    /\ idx <= Len(req.rows)
    /\ SummarizeRequestValid(RowText)
    /\ pc' = "pre"
    /\ pre' = NoPre
    /\ posts' = 0
    /\ outcome' = NoOutcome
    /\ exc' = NoExc
    /\ summary' = NoSummary
    /\ UNCHANGED inflight
    /\ UNCHANGED <<req, idx, results, successful, failed, response>>
    /\ UNCHANGED <<cached_url, evalVars, notSpec>>

\* The service call of the iteration returned or raised: append the result.
BatchRowRecordReraise ==
    /\ pc = "ret"
    /\ req.kind = "batch_upload"
    /\ IF exc = NoExc
       THEN /\ results' = Append(results,
                   BatchItemResult(RowIndex(idx), RowText, SummaryText(summary), RowReference,
                                   req.model, TRUE, NoExc))
            /\ successful' = successful + 1
            /\ idx' = idx + 1
            /\ pc' = "row"
            /\ UNCHANGED response
       ELSE /\ response' = Resp(500, exc)
            /\ pc' = "done"
            /\ UNCHANGED <<results, successful, idx>>
    /\ UNCHANGED <<req, failed>>
    /\ UNCHANGED <<callVars, cached_url, evalVars, notSpec>>

BatchRowRecord ==
    /\ pc = "ret"
    /\ req.kind = "batch_upload"
    /\ IF exc = NoExc
       THEN /\ results' = Append(results,
                   BatchItemResult(RowIndex(idx), RowText, SummaryText(summary), RowReference,
                                   req.model, TRUE, NoExc))
            /\ successful' = successful + 1
            /\ failed' = failed
       ELSE /\ results' = Append(results,
                   BatchItemResult(RowIndex(idx), RowText, <<>>, RowReference, req.model,
                                   FALSE, exc))
            /\ failed' = failed + 1
            /\ successful' = successful
    /\ idx' = idx + 1
    /\ pc' = "row"
    /\ UNCHANGED <<req, response>>
    /\ UNCHANGED <<callVars, cached_url, evalVars, notSpec>>

\* After the loop: BatchUploadResponse(total_items = len(results), ...)
BatchFinish ==
    /\ pc = "row"
    /\ req.kind = "batch_upload"
    /\ idx > Len(req.rows)
    /\ response' = [Resp(200, NoExc) EXCEPT !.total_items = Len(results),
                                            !.successful_items = successful,
                                            !.failed_items = failed]
    /\ pc' = "done"
    /\ UNCHANGED <<req, idx, results, successful, failed>>
    /\ UNCHANGED <<callVars, cached_url, evalVars, notSpec>>

\* ------------------------------------------------- POST /evaluation/single
SampleTexts ==
    {<<" ">>, <<"a">>, <<"b">>, <<"a", " ", "a", " ", "a", " ", "a">>,
     <<"a", " ", "b", " ", "c", " ", "a", " ", "a">>}

ReceiveEvaluateSingle ==
    /\ Idle
    /\ \E p \in SampleTexts, r \in SampleTexts, cb \in BOOLEAN :
       \E f \in FailPoints(cb) :
         LET G == get_evaluation_service(instances, evaluation_service)
             R == evaluate_single(TheCtx(G), p, r, cb, f)
         IN  /\ pc' = "done"
             /\ req' = [NoReq EXCEPT !.kind = "evaluate_single", !.calculate_bert = cb,
                                      !.predictions = <<p>>, !.references = <<r>>]
             /\ Store(G, R.E)
             /\ metrics' = R.metrics
             /\ exc' = R.exc
             /\ response' = IF R.exc = NoExc
                            THEN [Resp(200, NoExc) EXCEPT !.metrics = R.metrics]
                            ELSE Resp(500, R.exc)
    /\ UNCHANGED <<idx, results, successful, failed>>
    /\ UNCHANGED <<pre, posts, inflight, outcome, summary>>
    /\ UNCHANGED <<cached_url, notSpec>>

\* -------------------------------------------------- POST /evaluation/batch
\* the router's guard
LengthsDifferUnchecked(predictions, references) == FALSE

LengthsDiffer(predictions, references) == Len(predictions) # Len(references)

ReceiveEvaluateBatch ==
    /\ Idle
    /\ LET SampleLists == UNION {[1..n -> {<<"a">>, <<"b">>}] : n \in 1..MaxSamples} IN
       \E ps \in SampleLists, rs \in SampleLists, cb \in BOOLEAN :
       \E f \in FailPoints(cb) :
         LET G == get_evaluation_service(instances, evaluation_service)
             R == evaluate_batch(TheCtx(G), ps, rs, cb, f)
         IN  /\ pc' = "done"
             /\ req' = [NoReq EXCEPT !.kind = "evaluate_batch", !.calculate_bert = cb,
                                      !.predictions = ps, !.references = rs]
             /\ IF LengthsDiffer(ps, rs)
                THEN /\ Resolve
                     /\ UNCHANGED <<loads, computes, metrics, exc>>
                     /\ response' = Resp(400, Exc("HTTPException"))
                ELSE /\ Store(G, R.E)
                     /\ metrics' = R.metrics
                     /\ exc' = R.exc
                     /\ response' = IF R.exc = NoExc
                                    THEN [Resp(200, NoExc) EXCEPT !.metrics = R.metrics]
                                    ELSE Resp(500, R.exc)
    /\ UNCHANGED <<idx, results, successful, failed>>
    /\ UNCHANGED <<pre, posts, inflight, outcome, summary>>
    /\ UNCHANGED <<cached_url, notSpec>>

\* ------------------------------------------------- POST /evaluation/upload
\* evaluate_file up to the row loop of evaluate_from_file
ReceiveEvaluateFile ==
    /\ Idle
    /\ \E e \in Exts, cs \in {{cSum, cRef}, {cSum}, {cRef}}, cb \in BOOLEAN :
       \E rows \in TablesOver(cs, TRUE) :
         LET r == [NoReq EXCEPT !.kind = "evaluate_file", !.ext = e, !.cols = cs,
                                !.rows = rows, !.calculate_bert = cb,
                                !.text_column = cSum, !.reference_column = cRef]
         IN  IF ~HasSupportedExt(r)
             THEN Reject(r, 400, Exc("HTTPException"))
             ELSE IF parse_file(r, cSum, cRef) # NoExc
             THEN Reject(Read(r), 400, parse_file(r, cSum, cRef))
             ELSE Begin(Read(r), "row")
    /\ Resolve
    /\ UNCHANGED <<cached_url, loads, notSpec>>

\* str(cell).strip() if pd.notna(cell) else ""
ScoreCell(row, col) == IF notna(RowGet(row, col)) THEN Strip(str(row[col])) ELSE <<>>

\* the BatchItemResult of one scored row: R is what evaluate_single gave
EvalItemDefaultSuccess(index, summ, ref, R) ==
    LET item == BatchItemResult(index, <<>>, summ, ref, "None", TRUE, R.exc) IN
    IF R.exc = NoExc
    THEN [item EXCEPT !.rouge1 = R.metrics.rouge1, !.rouge2 = R.metrics.rouge2,
                      !.rougeL = R.metrics.rougeL, !.bleu = R.metrics.bleu,
                      !.bert_score = R.metrics.bert_score]
    ELSE item

EvalItem(index, summ, ref, R) ==
    LET item == BatchItemResult(index, <<>>, summ, ref, "None", R.exc = NoExc, R.exc) IN
    IF R.exc = NoExc
    THEN [item EXCEPT !.rouge1 = R.metrics.rouge1, !.rouge2 = R.metrics.rouge2,
                      !.rougeL = R.metrics.rougeL, !.bleu = R.metrics.bleu,
                      !.bert_score = R.metrics.bert_score]
    ELSE item

\* One iteration of the loop of evaluate_from_file.
EvalRowSkippingBlank ==
    /\ pc = "row"
    /\ req.kind = "evaluate_file"
    /\ idx <= Len(req.rows)
    /\ ScoreCell(req.rows[idx], req.text_column) = <<>>
    /\ idx' = idx + 1
    /\ UNCHANGED <<pc, req, results, successful, failed, response>>
    /\ UNCHANGED <<callVars, cached_url, evalVars, notSpec>>

EvalRow ==
    /\ pc = "row"
    /\ req.kind = "evaluate_file"
    /\ idx <= Len(req.rows)
    /\ \E f \in FailPoints(req.calculate_bert) :
         LET summ == ScoreCell(req.rows[idx], req.text_column)
             ref == ScoreCell(req.rows[idx], req.reference_column)
             G == [instances |-> instances, g |-> evaluation_service]
             R == evaluate_single(TheCtx(G), summ, ref, req.calculate_bert, f)
         IN  /\ Store(G, R.E)
             /\ metrics' = R.metrics
             /\ results' = Append(results, EvalItem(RowIndex(idx), summ, ref, R))
             /\ IF R.exc = NoExc
                THEN /\ successful' = successful + 1
                     /\ failed' = failed
                ELSE /\ failed' = failed + 1
                     /\ successful' = successful
    /\ idx' = idx + 1
    /\ UNCHANGED <<pc, req, response>>
    /\ UNCHANGED <<callVars, cached_url, notSpec>>

\* After the loop: BatchUploadResponse(total_items = len(df), ...)
EvalFileFinish ==
    /\ pc = "row"
    /\ req.kind = "evaluate_file"
    /\ idx > Len(req.rows)
    /\ response' = [Resp(200, NoExc) EXCEPT !.total_items = Len(req.rows),
                                            !.successful_items = successful,
                                            !.failed_items = failed]
    /\ pc' = "done"
    /\ UNCHANGED <<req, idx, results, successful, failed>>
    /\ UNCHANGED <<callVars, cached_url, evalVars, notSpec>>

\* ---------------------------------- POST /evaluation/summarize-and-evaluate
\* Dependencies resolved, then ModelType(request.model) inside the try.
ReceiveSummarizeAndEvaluate ==
    /\ Idle
    /\ \E m \in ModelType \cup {"made_up_model"}, r \in SampleTexts, cb \in BOOLEAN :
         LET rq == [NoReq EXCEPT !.kind = "summarize_and_evaluate", !.model = m,
                                 !.calculate_bert = cb, !.references = <<r>>]
         IN  IF m \notin ModelType
             THEN Reject(rq, 500, Exc("ValueError"))
             ELSE Begin(rq, "pre")
    /\ Resolve
    /\ UNCHANGED <<cached_url, loads, notSpec>>

\* summarize returned or raised; evaluate_single; every exception is a 500.
SummarizeAndEvaluateReturn ==
    /\ pc = "ret"
    /\ req.kind = "summarize_and_evaluate"
    /\ pc' = "done"
    /\ IF exc # NoExc
       THEN /\ response' = Resp(500, exc)
            /\ UNCHANGED <<exc, evalVars>>
       ELSE \E f \in FailPoints(req.calculate_bert) :
            LET G == [instances |-> instances, g |-> evaluation_service]
                R == evaluate_single(TheCtx(G), SummaryText(summary), req.references[1],
                                     req.calculate_bert, f)
            IN  /\ Store(G, R.E)
                /\ metrics' = R.metrics
                /\ exc' = R.exc
                /\ response' = IF R.exc = NoExc
                               THEN [Resp(200, NoExc) EXCEPT !.metrics = R.metrics,
                                                              !.summary = summary]
                               ELSE Resp(500, R.exc)
    /\ UNCHANGED <<req, idx, results, successful, failed>>
    /\ UNCHANGED <<pre, posts, inflight, outcome, summary>>
    /\ UNCHANGED <<cached_url, notSpec>>

Next ==
    \/ Respond
    \/ ReceiveSummarize
    \/ Preprocess
    \/ GetColabUrl
    \/ PostSummarize
    \/ ColabRespond
    \/ Postprocess
    \/ SummarizeReturn
    \/ ReceiveBatchUpload
    \/ BatchRowInvalid
    \/ BatchRowCall
    \/ BatchRowRecord
    \/ BatchFinish
    \/ ReceiveEvaluateSingle
    \/ ReceiveEvaluateBatch
    \/ ReceiveEvaluateFile
    \/ EvalRow
    \/ EvalFileFinish
    \/ ReceiveSummarizeAndEvaluate
    \/ SummarizeAndEvaluateReturn

Spec == Init /\ [][Next]_vars

\* ---------------------------------------------------------------- SpecConc
\* Concurrent POST /evaluation/single requests.  Depends(get_evaluation_service)
\* names a plain `def`, which the framework runs in a worker thread, so the
\* statements of get_evaluation_service of two requests interleave; the
\* handler itself (async, no await that yields) runs on the event loop, one
\* at a time.

InitConc ==
    /\ Started
    /\ fin = NoInput
    /\ fout = NoOutput
    /\ tin = NoCall
    /\ tpc = [t \in 1..NumThreads |-> "start"]

\* if _evaluation_service is None:
TCheck(t) ==
    /\ tpc[t] = "start"
    /\ IF evaluation_service = 0
       THEN tpc' = [tpc EXCEPT ![t] = "construct"]
       ELSE tpc' = [tpc EXCEPT ![t] = "return"]
    /\ UNCHANGED <<tsvc, evalVars, notConc>>

\* EvaluationService()
TConstruct(t) ==
    /\ tpc[t] = "construct"
    /\ instances' = Append(instances, EvaluationService)
    /\ tsvc' = [tsvc EXCEPT ![t] = Len(instances) + 1]
    /\ tpc' = [tpc EXCEPT ![t] = "assign"]
    /\ UNCHANGED <<evaluation_service, loads, computes, metrics>>
    /\ UNCHANGED notConc

\* _evaluation_service = <the new instance>
TAssign(t) ==
    /\ tpc[t] = "assign"
    /\ evaluation_service' = tsvc[t]
    /\ tpc' = [tpc EXCEPT ![t] = "return"]
    /\ UNCHANGED <<tsvc, instances, loads, computes, metrics>>
    /\ UNCHANGED notConc

\* return _evaluation_service
TReturn(t) ==
    /\ tpc[t] = "return"
    /\ tsvc' = [tsvc EXCEPT ![t] = evaluation_service]
    /\ tpc' = [tpc EXCEPT ![t] = "handler"]
    /\ UNCHANGED <<evalVars, notConc>>

\* the handler: eval_service.evaluate_single(...) on the instance injected
THandler(t) ==
    /\ tpc[t] = "handler"
    /\ \E p \in {<<"a">>}, r \in {<<"a">>}, cb \in BOOLEAN :
       \E f \in FailPoints(cb) :
         LET G == [instances |-> instances, g |-> tsvc[t]]
             R == evaluate_single(Ctx(instances[tsvc[t]], loads, NoLoads), p, r, cb, f)
         IN  /\ instances' = [instances EXCEPT ![tsvc[t]] = R.E.svc]
             /\ loads' = R.E.loads
             /\ computes' = R.E.computes
             /\ metrics' = R.metrics
    /\ tpc' = [tpc EXCEPT ![t] = "finished"]
    /\ UNCHANGED <<tsvc, evaluation_service, notConc>>

\* the worker takes the next request
TAgain(t) ==
    /\ tpc[t] = "finished"
    /\ tpc' = [tpc EXCEPT ![t] = "start"]
    /\ UNCHANGED <<tsvc, evalVars, notConc>>

NextConc ==
    \E t \in 1..NumThreads :
        \/ TCheck(t)
        \/ TConstruct(t)
        \/ TAssign(t)
        \/ TReturn(t)
        \/ THandler(t)
        \/ TAgain(t)

SpecConc == InitConc /\ [][NextConc]_vars

\* ------------------------------------------------------------- SpecFactory
\* The two factories as functions of their key: a key and a text are drawn,
\* then one factory is asked for the key's strategy, which is run on the text.

InitFactory ==
    /\ Started
    /\ tpc = [t \in 1..NumThreads |-> "off"]
    /\ fin \in [key : ModelType \cup {"made_up_model", "", "VIT5", "phobert", "qwen2"},
                 text : (TextCells \cup SampleTexts) \ {NaN}]
    /\ fout = NoOutput
    /\ tin = NoCall

ApplyPreprocessor ==
    /\ fout = NoOutput
    /\ fout' = run_preprocess(fin.key, fin.text)
    /\ UNCHANGED <<fin, notPure>>

ApplyPostprocessor ==
    /\ fout = NoOutput
    /\ fout' = run_postprocess(fin.key, fin.text)
    /\ UNCHANGED <<fin, notPure>>

NextFactory ==
    \/ ApplyPreprocessor
    \/ ApplyPostprocessor

SpecFactory == InitFactory /\ [][NextFactory]_vars

\* ------------------------------------------------- text utilities, continued
\* '\n'.join(line for line in lines if line)
JoinLinesKeepingBlank(lines) == Join(lines, "\n")

JoinLines(lines) == Join(SelectSeq(lines, NonEmpty), "\n")

\* preprocessing.clean_text
clean_text(text) ==
    LET t1 == Replace(text, <<"\r", "\n">>, "\n")
        t2 == Replace(t1, <<"\r">>, "\n")
        t3 == CollapseRuns(t2, {" ", "\t"}, " ")
        t4 == CollapseRuns(t3, {"\n"}, "\n")
        pieces == SplitOn(t4, "\n", <<>>)
        lines == [i \in 1..Len(pieces) |-> Strip(pieces[i])]
    IN  Strip(JoinLines(lines))

\* s.rfind(c): 0-based position of the last c, -1 when there is none
rfind(s, c) ==
    LET found == At(s, {c}, TRUE)
    IN  IF found = <<>> THEN -1 ELSE found[Len(found)] - 1

\* the position of the last sentence-final mark of s
LastEnd(s) ==
    LET a == rfind(s, ".")
        b == rfind(s, "!")
        c == rfind(s, "?")
    IN  IF a >= b /\ a >= c THEN a ELSE IF b >= c THEN b ELSE c

\* text[:k] for k >= 0
Prefix(s, k) == SubSeq(s, 1, IF k < Len(s) THEN k ELSE Len(s))

\* the cut at the last mark, the mark looked for in the whole text
CutAtLastMarkOfText(text, truncated, max_chars) ==
    IF 2 * LastEnd(text) > max_chars
    THEN Prefix(text, LastEnd(text) + 1)
    ELSE truncated

CutAtLastMark(text, truncated, max_chars) ==
    IF 2 * LastEnd(truncated) > max_chars
    THEN Prefix(truncated, LastEnd(truncated) + 1)
    ELSE truncated

\* preprocessing.truncate_text
truncate_text(text, max_chars) ==
    IF Len(text) <= max_chars THEN text
    ELSE CutAtLastMark(text, Prefix(text, max_chars), max_chars)

\* len(phrase) >= min_repeat_length, taken for the number of words
LongEnoughInWords(window) == Len(window) >= min_repeat_length

\* len(phrase) >= min_repeat_length for phrase = ' '.join(window)
LongEnough(window) == Len(Join(window, " ")) >= min_repeat_length

\* the while loop of remove_repetition from position i (0-based)
RECURSIVE RepetitionLoop(_, _, _, _)
RepetitionLoop(words, i, result, seen_phrases) ==
    IF i >= Len(words) THEN result
    ELSE LET \* words[i:i + 5]
             last == IF i + WindowWords < Len(words) THEN i + WindowWords ELSE Len(words)
             window == SubSeq(words, i + 1, last)
             phrase == Join(window, " ")
         IN  IF phrase \in seen_phrases /\ LongEnough(window)
             THEN RepetitionLoop(words, i + WindowWords, result, seen_phrases)
             ELSE RepetitionLoop(words, i + 1, Append(result, words[i + 1]),
                                 seen_phrases \cup {phrase})

\* postprocessing.remove_repetition
remove_repetition(text) == Join(RepetitionLoop(Words(text), 0, <<>>, {}), " ")

\* ------------------------------------------- ViT5Postprocessor, the dates
\* \d, \w and \b of the re module over the characters used here
DigitChars == <<"0", "1", "2", "3", "4", "5", "6", "7", "8", "9">>
IsDigit(c) == c \in {DigitChars[k] : k \in 1..Len(DigitChars)}
IsWordChar(c) == ~IsSpace(c) /\ c \notin {"/", ".", ",", "-"}

\* int(s) of a run of digits
RECURSIVE int(_)
int(s) ==
    LET DigitValue(c) == (CHOOSE k \in 1..Len(DigitChars) : DigitChars[k] = c) - 1
    IN  IF s = <<>> THEN 0
        ELSE int(SubSeq(s, 1, Len(s) - 1)) * Len(DigitChars) + DigitValue(s[Len(s)])

InRange(lo, s, hi) == lo <= int(s) /\ int(s) <= hi

\* fix_full_date(match): s is the 7 or 8 digits matched
fix_full_date_month_first(s) ==
    IF Len(s) = 7
    THEN IF InRange(1, SubSeq(s, 1, 1), 9) /\ InRange(1, SubSeq(s, 2, 3), 12)
         THEN SubSeq(s, 1, 1) \o <<"/">> \o SubSeq(s, 2, 3) \o <<"/">> \o SubSeq(s, 4, 7)
         ELSE IF InRange(1, SubSeq(s, 1, 2), 31) /\ InRange(1, SubSeq(s, 3, 3), 9)
         THEN SubSeq(s, 1, 2) \o <<"/">> \o SubSeq(s, 3, 3) \o <<"/">> \o SubSeq(s, 4, 7)
         ELSE s
    ELSE IF Len(s) = 8
    THEN IF InRange(1, SubSeq(s, 1, 2), 31) /\ InRange(1, SubSeq(s, 3, 4), 12)
         THEN SubSeq(s, 1, 2) \o <<"/">> \o SubSeq(s, 3, 4) \o <<"/">> \o SubSeq(s, 5, 8)
         ELSE s
    ELSE s

fix_full_date(s) ==
    IF Len(s) = 7
    THEN IF InRange(1, SubSeq(s, 1, 2), 31) /\ InRange(1, SubSeq(s, 3, 3), 9)
         THEN SubSeq(s, 1, 2) \o <<"/">> \o SubSeq(s, 3, 3) \o <<"/">> \o SubSeq(s, 4, 7)
         ELSE IF InRange(1, SubSeq(s, 1, 1), 9) /\ InRange(1, SubSeq(s, 2, 3), 12)
         THEN SubSeq(s, 1, 1) \o <<"/">> \o SubSeq(s, 2, 3) \o <<"/">> \o SubSeq(s, 4, 7)
         ELSE s
    ELSE IF Len(s) = 8
    THEN IF InRange(1, SubSeq(s, 1, 2), 31) /\ InRange(1, SubSeq(s, 3, 4), 12)
         THEN SubSeq(s, 1, 2) \o <<"/">> \o SubSeq(s, 3, 4) \o <<"/">> \o SubSeq(s, 5, 8)
         ELSE s
    ELSE s

\* replace_short(m) without m.group(1): original is the 3 or 4 digits matched
replace_short(original) ==
    IF Len(original) = 3
    THEN IF InRange(1, SubSeq(original, 1, 2), 31) /\ InRange(1, SubSeq(original, 3, 3), 9)
         THEN SubSeq(original, 1, 2) \o <<"/">> \o SubSeq(original, 3, 3)
         ELSE original
    ELSE IF Len(original) = 4
    THEN IF InRange(1, SubSeq(original, 1, 2), 31) /\ InRange(1, SubSeq(original, 3, 4), 12)
         THEN SubSeq(original, 1, 2) \o <<"/">> \o SubSeq(original, 3, 4)
         ELSE original
    ELSE original

\* the length of the longest run of characters of one class that starts at i
RECURSIVE DigitRun(_, _)
DigitRun(text, i) ==
    IF i <= Len(text) /\ IsDigit(text[i]) THEN 1 + DigitRun(text, i + 1) ELSE 0

RECURSIVE SpaceRun(_, _)
SpaceRun(text, i) ==
    IF i <= Len(text) /\ IsSpace(text[i]) THEN 1 + SpaceRun(text, i + 1) ELSE 0

\* \b between text[i - 1] and text[i]
Boundary(text, i) ==
    LET before == i > 1 /\ IsWordChar(text[i - 1])
        after == i <= Len(text) /\ IsWordChar(text[i])
    IN  before # after

\* re.sub(r'\b(\d{7,8})\b', fix_full_date, text), from position i on
RECURSIVE SubFullDates(_, _)
SubFullDates(text, i) ==
    IF i > Len(text) THEN <<>>
    ELSE IF ~IsDigit(text[i]) THEN <<text[i]>> \o SubFullDates(text, i + 1)
    ELSE LET n == DigitRun(text, i)
             digits == SubSeq(text, i, i + n - 1)
         IN  (IF n \in {7, 8} /\ Boundary(text, i) /\ Boundary(text, i + n)
              THEN fix_full_date(digits)
              ELSE digits) \o SubFullDates(text, i + n)

\* the cue words of the second pattern; re.IGNORECASE and str.lower() on the
\* letters of the patterns and prefixes of the postprocessors. The letter
\* U+0111, which a TLA+ string cannot hold, is written "dd" (and U+0110 "DD").
CueWords ==
    {<<"n", "g", "à", "y">>, <<"l", "à">>, <<"t", "r", "ư", "ớ", "c">>, <<"s", "a", "u">>}
Lower(c) ==
    LET UpperCase ==
            <<"N", "G", "À", "Y", "L", "T", "R", "Ư",
              "Ớ", "C", "S", "A", "U", "D", "I", "DD", "Â", "B", "Ả", "Ó", "M",
              "Ắ", "Ồ", "H", "E", "O", "Ế">>
        LowerCase ==
            <<"n", "g", "à", "y", "l", "t", "r", "ư",
              "ớ", "c", "s", "a", "u", "d", "i", "dd", "â", "b", "ả", "ó", "m",
              "ắ", "ồ", "h", "e", "o", "ế">>
    IN  IF \E k \in 1..Len(UpperCase) : UpperCase[k] = c
        THEN LowerCase[CHOOSE k \in 1..Len(UpperCase) : UpperCase[k] = c]
        ELSE c

\* re.sub(r'(ngày\s+|là\s+|trước\s+|sau\s+)(\d{3,4})\b', replace_short, text,
\* flags=re.IGNORECASE), from position i on
RECURSIVE SubShortDates(_, _)
SubShortDates(text, i) ==
    IF i > Len(text) THEN <<>>
    ELSE LET found == {cue \in CueWords :
                          /\ i + Len(cue) - 1 <= Len(text)
                          /\ \A k \in 1..Len(cue) : Lower(text[i + k - 1]) = cue[k]}
             c == IF found = {} THEN 0 ELSE Len(CHOOSE cue \in found : TRUE)
             w == SpaceRun(text, i + c)
             d == i + c + w
             n == DigitRun(text, d)
         IN  IF c > 0 /\ w > 0 /\ n \in {3, 4} /\ Boundary(text, d + n)
             THEN SubSeq(text, i, d - 1) \o replace_short(SubSeq(text, d, d + n - 1))
                      \o SubShortDates(text, d + n)
             ELSE <<text[i]>> \o SubShortDates(text, i + 1)

\* ViT5Postprocessor._fix_date_format
fix_date_format(text) == SubShortDates(SubFullDates(text, 1), 1)

\* ------------------------------------------------------- the preprocessors
\* preprocessing.segment_sentences: re.split(r'(?<=[.!?])\s+', text), then the
\* pieces stripped, the empty ones and those of 5 characters or fewer dropped
segment_sentences(text) ==
    LET n == Len(text)
        \* text[i] is white space that a mark and nothing but white space precede
        sep(i) == /\ 1 <= i /\ i <= n
                  /\ IsSpace(text[i])
                  /\ \E j \in 1..(i - 1) :
                        /\ text[j] \in {".", "!", "?"}
                        /\ \A k \in (j + 1)..i : IsSpace(text[k])
        from == SelectSeq([i \in 1..n |-> IF ~sep(i) /\ (i = 1 \/ sep(i - 1)) THEN i ELSE 0],
                          LAMBDA i : i > 0)
        ends == SelectSeq([i \in 1..n |-> IF ~sep(i) /\ (i = n \/ sep(i + 1)) THEN i ELSE 0],
                          LAMBDA i : i > 0)
        pieces == [k \in 1..Len(from) |-> Strip(SubSeq(text, from[k], ends[k]))]
    IN  SelectSeq(pieces, LAMBDA piece : piece # <<>> /\ Len(piece) > 5)

\* ViT5Preprocessor.preprocess(text, max_length) with max_length for budget
ViT5PreprocessorByMaxLength(text, max_length) ==
    LET cleaned == clean_text(text)
        truncated == truncate_text(cleaned, max_length)
    IN  [processed_text |-> <<"s", "u", "m", "m", "a", "r", "i", "z", "e", ":", " ">>
                                \o truncated,
         sentences |-> <<>>,
         num_sentences |-> 0,
         original_length |-> Len(text),
         processed_length |-> Len(truncated),
         was_truncated |-> Len(truncated) < Len(cleaned)]

\* ViT5Preprocessor.preprocess(text, max_length)
ViT5Preprocessor(text, max_length) ==
    LET cleaned == clean_text(text)
        truncated == truncate_text(cleaned, 3000)
    IN  [processed_text |-> <<"s", "u", "m", "m", "a", "r", "i", "z", "e", ":", " ">>
                                \o truncated,
         sentences |-> <<>>,
         num_sentences |-> 0,
         original_length |-> Len(text),
         processed_length |-> Len(truncated),
         was_truncated |-> Len(truncated) < Len(cleaned)]

\* PhoBertViT5Preprocessor.preprocess(text) without the limit on the sentences
PhoBertViT5PreprocessorUnlimited(text) ==
    LET cleaned == clean_text(text)
        sentences == segment_sentences(cleaned)
    IN  [processed_text |-> cleaned,
         sentences |-> sentences,
         num_sentences |-> Len(sentences),
         original_length |-> Len(text),
         processed_length |-> Len(cleaned),
         was_truncated |-> FALSE]

\* PhoBertViT5Preprocessor.preprocess(text); the dict has no processed_length
\* and no was_truncated, given here as the length sent on and FALSE
PhoBertViT5Preprocessor(text) ==
    LET cleaned == clean_text(text)
        segmented == segment_sentences(cleaned)
        sentences == IF Len(segmented) > max_sentences
                     THEN SubSeq(segmented, 1, max_sentences)
                     ELSE segmented
    IN  [processed_text |-> cleaned,
         sentences |-> sentences,
         num_sentences |-> Len(sentences),
         original_length |-> Len(text),
         processed_length |-> Len(cleaned),
         was_truncated |-> FALSE]

\* QwenPreprocessor.preprocess(text, max_context)
QwenPreprocessor(text, max_context) ==
    LET cleaned == clean_text(text)
        truncated == truncate_text(cleaned, max_context)
    IN  [processed_text |-> truncated,
         sentences |-> <<>>,
         num_sentences |-> 0,
         original_length |-> Len(text),
         processed_length |-> Len(truncated),
         was_truncated |-> Len(truncated) < Len(cleaned)]

\* ------------------------------------------------------ the postprocessors
\* postprocessing.clean_output
clean_output(text) ==
    LET stripped == Strip(CollapseRuns(text, {" ", "\t", "\n", "\r", "\f"}, " "))
    IN  IF stripped # <<>> /\ stripped[Len(stripped)] \notin {".", "!", "?"}
        THEN Append(stripped, ".")
        ELSE stripped

\* ensure_complete_sentences with `last_end >= len(text) * 0.5`
ensure_complete_sentences_from_midpoint(text) ==
    IF 2 * LastEnd(text) >= Len(text) THEN Prefix(text, LastEnd(text) + 1) ELSE text

\* postprocessing.ensure_complete_sentences
ensure_complete_sentences(text) ==
    IF 2 * LastEnd(text) > Len(text) THEN Prefix(text, LastEnd(text) + 1) ELSE text

\* s.lower().startswith(p.lower()) from position i of s on
StartsWithAt(s, i, p) ==
    /\ i + Len(p) - 1 <= Len(s)
    /\ \A k \in 1..Len(p) : Lower(s[i + k - 1]) = Lower(p[k])

prefixes_to_remove ==
    <<<<"D", "ư", "ớ", "i", " ", "dd", "â", "y", " ", "l", "à", " ", "b", "ả", "n", " ", "t", "ó", "m", " ", "t", "ắ", "t", ":">>,
      <<"T", "ó", "m", " ", "t", "ắ", "t", ":">>,
      <<"B", "ả", "n", " ", "t", "ó", "m", " ", "t", "ắ", "t", ":">>,
      <<"S", "u", "m", "m", "a", "r", "y", ":">>>>

\* for prefix in prefixes_to_remove from the k-th on: if cleaned.lower()
\* .startswith(prefix.lower()): cleaned = cleaned[len(prefix):].strip()
RECURSIVE StripPrefixes(_, _)
StripPrefixes(cleaned, k) ==
    IF k > Len(prefixes_to_remove) THEN cleaned
    ELSE LET prefix == prefixes_to_remove[k]
         IN  StripPrefixes(IF StartsWithAt(cleaned, 1, prefix)
                           THEN Strip(SubSeq(cleaned, Len(prefix) + 1, Len(cleaned)))
                           ELSE cleaned,
                           k + 1)

\* the patterns open.*?close of hallucination_patterns
hallucination_patterns ==
    <<[open |-> <<"(", "n", "g", "u", "ồ", "n", ":">>, close |-> <<")">>],
      [open |-> <<"[">>, close |-> <<"]">>],
      [open |-> <<"T", "h", "e", "o">>, close |-> <<"c", "h", "o", " ", "b", "i", "ế", "t", ",">>]>>

\* the end of the shortest match of open.*?close that starts at i, 0 if none
MatchEnd(text, i, pattern) ==
    LET from == i + Len(pattern.open)
        ends == {j \in from..Len(text) :
                    /\ StartsWithAt(text, j, pattern.close)
                    /\ \A k \in from..(j - 1) : text[k] # "\n"}
    IN  IF StartsWithAt(text, i, pattern.open) /\ ends # {}
        THEN (CHOOSE j \in ends : \A other \in ends : j <= other) + Len(pattern.close) - 1
        ELSE 0

\* re.sub(pattern, '', text, flags=re.IGNORECASE), from position i on
RECURSIVE re_sub(_, _, _)
re_sub(pattern, text, i) ==
    IF i > Len(text) THEN <<>>
    ELSE IF MatchEnd(text, i, pattern) > 0
         THEN re_sub(pattern, text, MatchEnd(text, i, pattern) + 1)
         ELSE <<text[i]>> \o re_sub(pattern, text, i + 1)

\* QwenPostprocessor.postprocess(summary)
QwenPostprocessor(raw_summary) ==
    LET cleaned == clean_output(raw_summary)
        stripped == StripPrefixes(cleaned, 1)
        complete == ensure_complete_sentences(remove_repetition(stripped))
        without1 == re_sub(hallucination_patterns[1], complete, 1)
        without2 == re_sub(hallucination_patterns[2], without1, 1)
        without3 == re_sub(hallucination_patterns[3], without2, 1)
        final == clean_output(without3)
    IN  [summary |-> final,
         original_length |-> Len(raw_summary),
         processed_length |-> Len(final)]

\* ---------------------------------------------------------------- SpecText
\* The text utilities as functions of their arguments: the arguments of one
\* call are drawn, then the utility named by the call is applied to them.
SeqsUpTo(chars, n) == UNION {[1..k -> chars] : k \in 0..n}

CleanCalls ==
    {[op |-> "clean_text", text |-> t, n |-> 0, parts |-> <<>>] :
        t \in SeqsUpTo({"a", " ", "\t", "\n", "\r", "\f"}, MaxLen)}
TruncateCalls ==
    {[op |-> "truncate_text", text |-> t, n |-> n, parts |-> <<>>] :
        t \in SeqsUpTo({"a", ".", "?"}, MaxLen + 1), n \in 0..MaxLen}

\* A phrase of six words said three times between a few other words.  Word k
\* of the phrase is one or two letters long.
RepetitionCalls ==
    LET PhraseLetters == {<<"a", "b", "c", "d", "e", "f">>, <<"a", "b", "c", "a", "b", "c">>}
        Phrases == {[k \in 1..6 |-> Rep(lens[k], letters[k])] :
                       lens \in [1..6 -> {1, 2}], letters \in PhraseLetters}
        Prefixes == {<<>>, <<Rep(1, "x")>>, <<Rep(1, "x"), Rep(2, "y")>>}
        Suffixes == {<<>>, <<Rep(1, "z")>>, <<Rep(1, "a")>>, <<Rep(2, "z"), Rep(1, "w")>>}
    IN  {[op |-> "remove_repetition", n |-> 0, parts |-> <<before, ph, after>>,
          text |-> Join(before \o ph \o ph \o ph \o after, " ")] :
            before \in Prefixes, ph \in Phrases, after \in Suffixes}

\* _fix_date_format on a run of digits between a context and a suffix
DateCalls ==
    LET DateDigits == {<<"0">>, <<"1">>, <<"2">>, <<"3">>}
        Year == <<"2", "0", "2", "3">>
        DayMonths ==
            {a \o b \o c : a \in DateDigits, b \in DateDigits, c \in DateDigits}
            \cup {a \o b \o c \o d : a \in DateDigits, b \in DateDigits,
                                       c \in DateDigits, d \in DateDigits}
        DigitRuns ==
            DayMonths \cup {dm \o Year : dm \in DayMonths}
            \cup {<<"1", "8", "5">> \o Year, <<"2", "0", "6">>, <<"2", "4", "0", "6">>,
                  <<"9", "0", "9">> \o Year, <<"9", "1", "2">> \o Year, <<"3", "0", "9">>,
                  <<"1">> \o Year, <<"1", "2">> \o Year,
                  <<"1", "2", "1", "2", "1">> \o Year}
        Contexts ==
            {<<>>, <<"n", "g", "à", "y", " ">>, <<"N", "g", "à", "y", " ", "\t">>,
             <<"l", "à", " ">>, <<"t", "r", "ư", "ớ", "c", " ">>, <<"s", "a", "u", " ">>,
             <<"s", "a", "u">>, <<"x", " ">>, <<"n", "g", "à", "y", " ", "x">>}
        After == {<<>>, <<"x">>, <<".">>}
    IN  {[op |-> "fix_date_format", n |-> 0, parts |-> <<before, digits, after>>,
          text |-> before \o digits \o after] :
            before \in Contexts, digits \in DigitRuns, after \in After}

\* preprocess on texts of up to 120 sentences (every `short`-th of them too
\* short to count), and on texts around the character budgets: a text of
\* `len` characters with a full stop at `mark`
PreprocessCalls ==
    LET Marks == <<".", "!", "?">>
        Number(k) == <<DigitChars[(k \div 100) + 1], DigitChars[((k \div 10) % 10) + 1],
                       DigitChars[(k % 10) + 1]>>
        Sentence(k, short) ==
            IF short > 0 /\ k % short = 0 THEN <<"ừ", Marks[(k % 3) + 1]>>
            ELSE <<"c", "â", "u", " ">> \o Number(k) \o <<Marks[(k % 3) + 1]>>
        Long(len, mark) == [i \in 1..len |-> IF i = mark THEN "." ELSE "a"]
        Pads == {<<>>, <<" ", "\n">>}
        \* each sentence on 8 columns, filled up with spaces, then sep
        Column(sentences, sep, i) ==
            LET sentence == sentences[((i - 1) \div 9) + 1]
                j == ((i - 1) % 9) + 1
            IN  IF j <= Len(sentence) THEN sentence[j] ELSE IF j = 9 THEN sep ELSE " "
    IN  {[op |-> "PhoBertViT5Preprocessor", n |-> 0, parts |-> sentences,
          text |-> [i \in 1..(9 * Len(sentences)) |-> Column(sentences, sep, i)]] :
            sentences \in {[k \in 1..n |-> Sentence(k, short)] :
                              n \in {0, 1, 2, 49, 50, 51, 57, 120}, short \in {0, 7}},
            sep \in {" ", "\n", "\t"}}
        \cup
        {[op |-> "ViT5Preprocessor", n |-> max_length, parts |-> <<pad>>,
          text |-> pad \o Long(len, mark) \o pad] :
            max_length \in {50, 512}, len \in {2999, 3000, 3001}, mark \in {0, 1400, 2000},
            pad \in Pads}
        \cup
        {[op |-> "QwenPreprocessor", n |-> 6000, parts |-> <<pad>>,
          text |-> pad \o Long(len, mark) \o pad] :
            len \in {5999, 6000, 6001}, mark \in {0, 2900, 4000}, pad \in Pads}

\* QwenPostprocessor.postprocess on raw outputs put together from lead-in
\* phrases, annotations, citations, attributions and their pieces
PostprocessCalls ==
    LET Pieces ==
            {<<"S", "u", "m", "m", "a", "r", "y", ":">>,
             <<"T", "ó", "m", " ", "t", "ắ", "t", ":">>,
             <<"t", "ó", "m", " ", "T", "Ắ", "T", ":">>,
             <<"B", "ả", "n", " ", "t", "ó", "m", " ", "t", "ắ", "t", ":">>,
             <<"D", "ư", "ớ", "i", " ", "dd", "â", "y", " ", "l", "à", " ", "b", "ả", "n", " ", "t", "ó", "m", " ", "t", "ắ", "t", ":">>,
             <<" ">>,
             <<"[", "x", "]">>,
             <<"(", "n", "g", "u", "ồ", "n">>,
             <<":", " ", "a", ")">>,
             <<"(", "N", "g", "u", "ồ", "n", ":", " ", "a", ")">>,
             <<"T", "h", "e", "o", " ", "a", " ">>,
             <<"c", "h", "o", " ", "b", "i", "ế", "t", ",">>,
             <<"T", "h", "e", "o", " ", "a", " ", "c", "h", "o", " ", "b", "i", "ế", "t", ",">>,
             <<"T", "h", "e">>,
             <<"o", " ", "b", " ", "c", "h", "o", " ", "b", "i", "ế", "t", ",">>,
             <<"N", "ộ", "i", " ", "d", "u", "n", "g", ".">>}
        Raw == UNION {[1..k -> Pieces] : k \in 1..3}
        Concat(ps) == IF Len(ps) = 1 THEN ps[1]
                      ELSE IF Len(ps) = 2 THEN ps[1] \o ps[2]
                      ELSE ps[1] \o ps[2] \o ps[3]
    IN  {[op |-> "QwenPostprocessor", n |-> 0, parts |-> ps, text |-> Concat(ps)] :
            ps \in Raw}

SentenceCalls ==
    {[op |-> "ensure_complete_sentences", text |-> t, n |-> 0, parts |-> <<>>] :
        t \in SeqsUpTo({"a", ".", "!", "?"}, MaxLen)}

InitText ==
    /\ Started
    /\ tpc = [t \in 1..NumThreads |-> "off"]
    /\ fin = NoInput
    /\ fout = NoOutput
    /\ tin \in CleanCalls \cup TruncateCalls \cup RepetitionCalls \cup DateCalls

Returned(text) == [NoResult EXCEPT !.calls = 1, !.text = text]

ApplyCleanText ==
    /\ tin.op = "clean_text"
    /\ tout.calls = 0
    /\ tout' = Returned(clean_text(tin.text))
    /\ UNCHANGED <<tin, notText>>

\* clean_text called on what the first call returned
ApplyCleanTextAgain ==
    /\ tin.op = "clean_text"
    /\ tout.calls = 1
    /\ tout' = [tout EXCEPT !.calls = 2, !.again = clean_text(tout.text)]
    /\ UNCHANGED <<tin, notText>>

ApplyTruncateText ==
    /\ tin.op = "truncate_text"
    /\ tout.calls = 0
    /\ tout' = Returned(truncate_text(tin.text, tin.n))
    /\ UNCHANGED <<tin, notText>>

ApplyRemoveRepetition ==
    /\ tin.op = "remove_repetition"
    /\ tout.calls = 0
    /\ tout' = Returned(remove_repetition(tin.text))
    /\ UNCHANGED <<tin, notText>>

ApplyFixDateFormat ==
    /\ tin.op = "fix_date_format"
    /\ tout.calls = 0
    /\ tout' = Returned(fix_date_format(tin.text))
    /\ UNCHANGED <<tin, notText>>

\* preprocessor.preprocess(text=request.text, max_length=request.max_length)
\* for the preprocessor of each model; max_context is left at its default
ApplyPreprocess ==
    /\ tin.op \in {"ViT5Preprocessor", "PhoBertViT5Preprocessor", "QwenPreprocessor"}
    /\ tout.calls = 0
    /\ LET result == CASE tin.op = "ViT5Preprocessor" -> ViT5Preprocessor(tin.text, tin.n)
                       [] tin.op = "PhoBertViT5Preprocessor" -> PhoBertViT5Preprocessor(tin.text)
                       [] tin.op = "QwenPreprocessor" -> QwenPreprocessor(tin.text, tin.n)
       IN  tout' = [Returned(result.processed_text) EXCEPT !.info = result]
    /\ UNCHANGED <<tin, notText>>

\* postprocessor.postprocess(summary=colab_response.get("summary", ""), ...)
\* for the postprocessor of qwen
ApplyPostprocess ==
    /\ tin.op = "QwenPostprocessor"
    /\ tout.calls = 0
    /\ LET result == QwenPostprocessor(tin.text)
       IN  tout' = [Returned(result.summary) EXCEPT !.info = result]
    /\ UNCHANGED <<tin, notText>>

ApplyEnsureCompleteSentences ==
    /\ tin.op = "ensure_complete_sentences"
    /\ tout.calls = 0
    /\ tout' = Returned(ensure_complete_sentences(tin.text))
    /\ UNCHANGED <<tin, notText>>

NextText ==
    \/ ApplyRemoveRepetition
    \/ ApplyFixDateFormat
    \/ ApplyCleanText
    \/ ApplyCleanTextAgain
    \/ ApplyTruncateText

SpecText == InitText /\ [][NextText]_vars

\* ---------------------------------------------------------------- SpecProc
\* The preprocessors and postprocessors as functions of their arguments.
InitProc ==
    /\ Started
    /\ tpc = [t \in 1..NumThreads |-> "off"]
    /\ fin = NoInput
    /\ fout = NoOutput
    /\ tin \in PreprocessCalls \cup PostprocessCalls \cup SentenceCalls

NextProc ==
    \/ ApplyPreprocess
    \/ ApplyPostprocess
    \/ ApplyEnsureCompleteSentences

SpecProc == InitProc /\ [][NextProc]_vars

\* ---------------------------------------------------------------- SpecLoop
\* remove_repetition statement by statement: one call on a text of up to
\* MaxLen + 2 words, one step for each turn of its while loop.
LoopCalls ==
    LET LoopWords == {<<"a">>, <<"a", "b">>}
    IN  {[op |-> "remove_repetition", n |-> 0, parts |-> ws, text |-> Join(ws, " ")] :
            ws \in SeqsUpTo(LoopWords, MaxLen + 2)}

InitLoop ==
    /\ Started
    /\ tpc = [t \in 1..NumThreads |-> "off"]
    /\ fin = NoInput
    /\ fout = NoOutput
    /\ tin \in LoopCalls

\* words = text.split(); result = []; seen_phrases = set(); i = 0
RepetitionEnter ==
    /\ loop.pc = "off"
    /\ tout.calls = 0
    /\ loop' = [NoLoop EXCEPT !.pc = "while", !.words = Words(tin.text)]
    /\ UNCHANGED <<tin, tout, notLoop>>

\* words[i:i + 5]
Window(words, i) ==
    SubSeq(words, i + 1, IF i + WindowWords < Len(words) THEN i + WindowWords ELSE Len(words))

\* one turn of the loop that skips every window long enough, seen or not
RepetitionIterateUnseen ==
    /\ loop.pc = "while"
    /\ loop.i < Len(loop.words)
    /\ LET window == Window(loop.words, loop.i)
           phrase == Join(window, " ")
       IN  IF LongEnough(window)
           THEN loop' = [loop EXCEPT !.i = @ + WindowWords]
           ELSE loop' = [loop EXCEPT !.i = @ + 1,
                                     !.result = Append(@, loop.words[loop.i + 1]),
                                     !.seen_phrases = @ \cup {phrase}]
    /\ UNCHANGED <<tin, tout, notLoop>>

\* one turn of the loop: while i < len(words)
RepetitionIterate ==
    /\ loop.pc = "while"
    /\ loop.i < Len(loop.words)
    /\ LET window == Window(loop.words, loop.i)
           phrase == Join(window, " ")
       IN  IF phrase \in loop.seen_phrases /\ LongEnough(window)
           THEN loop' = [loop EXCEPT !.i = @ + WindowWords]
           ELSE loop' = [loop EXCEPT !.i = @ + 1,
                                     !.result = Append(@, loop.words[loop.i + 1]),
                                     !.seen_phrases = @ \cup {phrase}]
    /\ UNCHANGED <<tin, tout, notLoop>>

\* the loop is left: return ' '.join(result)
RepetitionReturn ==
    /\ loop.pc = "while"
    /\ loop.i >= Len(loop.words)
    /\ tout' = Returned(Join(loop.result, " "))
    /\ loop' = [loop EXCEPT !.pc = "returned"]
    /\ UNCHANGED <<tin, notLoop>>

NextLoop ==
    \/ RepetitionEnter
    \/ RepetitionIterate
    \/ RepetitionReturn

\* the call runs on: a step that can be taken is taken
SpecLoop == InitLoop /\ [][NextLoop]_vars /\ WF_vars(NextLoop)

\* ---------------------------------------------------------------- SpecRuns
\* Two batch runs in one process. Each is a coroutine of the event loop and
\* gives way to the other at its awaits (the GET of the Gist, the POST to the
\* server). Both use the ColabClient singleton; a health check, and a change
\* of what the Gist serves, may fall between any two of their steps.
InitRuns ==
    /\ Started
    /\ tpc = [t \in 1..NumThreads |-> "off"]
    /\ fin = NoInput
    /\ fout = NoOutput
    /\ tin = NoCall

\* process_batch starts on a parsed table of `rows` rows
RunStart(r) ==
    /\ run[r].pc = "off"
    /\ \E n \in 1..MaxRows :
         run' = [run EXCEPT ![r] = [pc |-> "url", rows |-> n, row |-> 1, url |-> ""]]
    /\ UNCHANGED <<gist, cached_url, notRuns>>

\* if self._cached_url and not force_refresh: return self._cached_url
NeverCached(cache, force_refresh) == FALSE
CacheHit(cache, force_refresh) == cache # "" /\ ~force_refresh

\* the row is over: the next row, or the end of the loop
NextRow(rn) ==
    IF rn.row < rn.rows
    THEN [rn EXCEPT !.pc = "url", !.row = @ + 1]
    ELSE [rn EXCEPT !.pc = "done"]

\* ColabClient.summarize -> get_colab_url(): the cached URL, else the GET of
\* the Gist is sent and the coroutine waits for it.
RunGetColabUrl(r) ==
    /\ run[r].pc = "url"
    /\ IF CacheHit(cached_url, FALSE)
       THEN run' = [run EXCEPT ![r].pc = "send", ![r].url = cached_url]
       ELSE run' = [run EXCEPT ![r].pc = "get"]
    /\ UNCHANGED <<gist, cached_url, notRuns>>

\* the GET of the Gist returns: self._cached_url = resp.text.strip(); or it
\* fails, the ConnectionError ends the row (caught in process_batch).
RunGistReturns(r) ==
    /\ run[r].pc = "get"
    /\ \/ /\ cached_url' = gist
          /\ run' = [run EXCEPT ![r].pc = "send", ![r].url = gist]
       \/ /\ run' = [run EXCEPT ![r] = NextRow(run[r])]
          /\ UNCHANGED cached_url
    /\ UNCHANGED <<gist, notRuns>>

\* client.post(f"{url}/summarize", ...) is sent
RunPost(r) ==
    /\ run[r].pc = "send"
    /\ run' = [run EXCEPT ![r].pc = "wait"]
    /\ UNCHANGED <<gist, cached_url, notRuns>>

\* the POST ends one way or another and the row's result is appended
RunRecord(r) ==
    /\ run[r].pc = "wait"
    /\ run' = [run EXCEPT ![r] = NextRow(run[r])]
    /\ UNCHANGED <<gist, cached_url, notRuns>>

\* the response is sent and the run's objects are dropped
RunFinish(r) ==
    /\ run[r].pc = "done"
    /\ run' = [run EXCEPT ![r] = NoRun]
    /\ UNCHANGED <<gist, cached_url, notRuns>>

\* GET /summarization/health: get_colab_url(force_refresh = True)
HealthCheck ==
    /\ ~CacheHit(cached_url, TRUE)
    /\ \/ cached_url' = gist
       \/ UNCHANGED cached_url
    /\ UNCHANGED <<run, gist, notRuns>>

\* the Colab notebook restarts and publishes its new address
GistChange ==
    /\ \E g \in {"", "url1", "url2"} \ {gist} : gist' = g
    /\ UNCHANGED <<run, cached_url, notRuns>>

NextRuns ==
    \/ \E r \in Runs :
          \/ RunStart(r)
          \/ RunGetColabUrl(r)
          \/ RunGistReturns(r)
          \/ RunPost(r)
          \/ RunRecord(r)
          \/ RunFinish(r)
    \/ HealthCheck
    \/ GistChange

SpecRuns == InitRuns /\ [][NextRuns]_vars

\* ============================================================== properties
BatchParsed ==
    /\ req.kind = "batch_upload"
    /\ req.ext \in SupportedExts
    /\ req.model \in ModelType
    /\ parse_file(req, req.text_column, req.reference_column) = NoExc

RECURSIVE CountSuccess(_, _)
CountSuccess(rs, flag) ==
    IF rs = <<>> THEN 0
    ELSE (IF Head(rs).success = flag THEN 1 ELSE 0) + CountSuccess(Tail(rs), flag)

\* C1: when process_batch ends on a table that parsed, there is exactly one
\* BatchItemResult per row, in row order, the response was produced (200) with
\* successful_items + failed_items = total_items = number of rows, the counters
\* count the results of each kind, and a row whose text fails request
\* validation is a recorded failure; while the loop runs, every row before the
\* current one has its result.
C1_OneResultPerRow ==
    BatchParsed =>
      /\ pc \in {"row", "pre", "url", "send", "wait", "postproc", "ret"} =>
            /\ Len(results) = idx - 1
            /\ successful + failed = Len(results)
      /\ pc = "done" =>
            /\ response.status = 200
            /\ Len(results) = Len(req.rows)
            /\ response.total_items = Len(req.rows)
            /\ response.successful_items + response.failed_items = response.total_items
            /\ response.successful_items = CountSuccess(results, TRUE)
            /\ response.failed_items = CountSuccess(results, FALSE)
            /\ \A i \in 1..Len(results) :
                  /\ results[i].index = i - 1
                  /\ results[i].original_text = str(req.rows[i][req.text_column])
                  /\ Len(results[i].original_text) < MinTextLength
                        => ~results[i].success

\* a batch whose first row failed on the inference call and whose second row
\* was still processed, successfully
C1_Witness ==
    /\ BatchParsed
    /\ pc = "done"
    /\ Len(results) = 2
    /\ ~results[1].success
    /\ results[1].error.type = "TimeoutError"
    /\ results[2].success

HasMetrics(r) ==
    /\ r.rouge1 # NoMetric
    /\ r.rouge2 # NoMetric
    /\ r.rougeL # NoMetric
    /\ r.bleu # NoMetric
    /\ r.bert_score # NoMetric

HasNoMetric(r) ==
    /\ r.rouge1 = NoMetric
    /\ r.rouge2 = NoMetric
    /\ r.rougeL = NoMetric
    /\ r.bleu = NoMetric
    /\ r.bert_score = NoMetric

\* C2: every BatchItemResult is a full success (success, no error, and all five
\* metrics when scoring a file) or a full failure (no success, an error, no
\* metric, and an empty summary when summarizing), never a mix.
C2_SuccessOrFailure ==
    \A i \in 1..Len(results) :
       LET r == results[i] IN
       \/ /\ r.success
          /\ r.error = NoExc
          /\ req.kind = "evaluate_file" => HasMetrics(r)
       \/ /\ ~r.success
          /\ r.error # NoExc
          /\ HasNoMetric(r)
          /\ req.kind = "batch_upload" => r.summary = <<>>

\* a scored file with one failed row and one scored row
C2_Witness ==
    /\ req.kind = "evaluate_file"
    /\ Len(results) = 2
    /\ ~results[1].success
    /\ results[2].success
    /\ results[2].bert_score = 0

PostFailed == outcome.kind \in {"timeout", "status", "connect", "badjson"}

\* C3: a failed POST to the inference server raises out of ColabClient.summarize
\* and returns nothing: TimeoutError for a timeout (504 at
\* /summarization/summarize), RuntimeError carrying the response body for a
\* non-2xx response, ConnectionError for any other failure (503).
C3_ThreeErrorKinds ==
    PostFailed =>
      /\ summary = NoSummary
      /\ pc \notin {"postproc"}
      /\ outcome.kind = "timeout" => exc = Exc("TimeoutError")
      /\ outcome.kind = "status" => exc = ExcBody("RuntimeError", outcome.body)
      /\ outcome.kind \in {"connect", "badjson"} => exc = Exc("ConnectionError")
      /\ (pc = "done" /\ req.kind = "summarize") =>
            /\ outcome.kind = "timeout" => response.status = 504
            /\ outcome.kind \in {"connect", "badjson"} => response.status = 503
            /\ response.summary = NoSummary

\* /summarization/summarize answered 504 after the POST timed out
C3_Witness ==
    /\ pc = "done"
    /\ req.kind = "summarize"
    /\ outcome.kind = "timeout"
    /\ exc.type = "TimeoutError"
    /\ response.status = 504

\* C4: one call of SummarizationService.summarize makes at most one POST, and
\* once the POST has failed the call is on its way out: it neither sends again
\* nor waits for another response.
C4_NoRetry ==
    /\ posts <= 1
    /\ PostFailed => pc \in {"ret", "row", "done"}

\* a call that ended in a timeout after its single POST
C4_Witness ==
    /\ posts = 1
    /\ outcome.kind = "timeout"
    /\ pc = "ret"
    /\ exc.type = "TimeoutError"

\* C5: at both single-request entry points a connection failure is answered
\* 503, a timeout 504 and an upstream non-2xx with a third status.
C5_DistinctStatuses ==
    (pc = "done" /\ req.kind \in {"summarize", "summarize_and_evaluate"} /\ PostFailed) =>
       /\ outcome.kind = "timeout" => response.status = 504
       /\ outcome.kind \in {"connect", "badjson"} => response.status = 503
       /\ outcome.kind = "status" => response.status \notin {200, 503, 504}

\* C6: a summarize request of any ModelType gets past the preprocessor
\* factory, and phobert_vit5_paraphrase is preprocessed by the phobert_vit5
\* strategy (sentence list included).
C6_EveryVariantPreprocessed ==
    (req.kind = "summarize" /\ req.model \in ModelType /\ pc \notin {"idle", "pre"}) =>
       /\ pre.strategy # "none"
       /\ exc # Exc("ValueError")
       /\ req.model = "phobert_vit5_paraphrase" =>
             /\ pre.strategy = "PhoBertViT5Preprocessor"
             /\ pre.sentences

\* C7: either factory raises for a key that is no model key, before the text
\* is touched, and returns a strategy for every model key.
C7_FactoriesAgreeWithRegistry ==
    fout # NoOutput =>
       /\ fin.key \notin ModelType =>
             /\ fout.exc = Exc("ValueError")
             /\ ~fout.processed
       /\ fin.key \in ModelType =>
             /\ fout.exc = NoExc
             /\ fout.strategy # "none"

BertLoaded == evaluation_service # 0 /\ instances[evaluation_service].bert_loaded

Unloaded(svc) == ~svc.rouge /\ ~svc.bleu /\ ~svc.bert_loaded

\* C8: a /evaluation/batch request whose lists differ in length is answered
\* with the length-mismatch error (400) in a step that computes no metric and
\* loads no backend: the load counts and every existing instance are left as
\* they were, and an instance created for the request is still unloaded.
C8_MismatchRejectedFirst ==
    [][(req'.kind = "evaluate_batch" /\ pc' = "done" /\ pc = "idle"
        /\ Len(req'.predictions) # Len(req'.references)) =>
          /\ response'.status = 400
          /\ response'.metrics = NoMetrics
          /\ metrics' = NoMetrics
          /\ computes' = NoLoads
          /\ loads' = loads
          /\ \A i \in 1..Len(instances') :
                IF i <= Len(instances) THEN instances'[i] = instances[i]
                ELSE Unloaded(instances'[i])]_vars

\* 2 predictions against 1 reference, rejected
C8_Witness ==
    /\ pc = "done"
    /\ req.kind = "evaluate_batch"
    /\ Len(req.predictions) = 2
    /\ Len(req.references) = 1
    /\ response.status = 400
    /\ loads.rouge = 0

\* C9: whatever the interleaving, one EvaluationService is ever constructed
\* and each backend is loaded at most once in the process.
C9_InitialisedOnce ==
    /\ Len(instances) <= 1
    /\ loads.rouge <= 1
    /\ loads.bleu <= 1
    /\ loads.bertscore <= 1

Scoring == req.kind \in {"evaluate_single", "evaluate_batch", "evaluate_file",
                         "summarize_and_evaluate"}

\* C10 as amended: BERTScore is loaded only in a step of a call with
\* calculate_bert true, and only if it was not loaded before; once loaded it
\* stays loaded; a call that reaches the BERTScore computation leaves it
\* loaded; a call with calculate_bert false computes no BERTScore and every
\* bert_score it returns is the sentinel 0.
C10_LazyBertSentinel ==
    [][/\ loads'.bertscore # loads.bertscore =>
             /\ req'.calculate_bert
             /\ Scoring'
             /\ loads.bertscore = 0
             /\ loads'.bertscore = 1
       /\ BertLoaded => BertLoaded'
       /\ computes'.bertscore > 0 => BertLoaded'
       /\ (Scoring' /\ ~req'.calculate_bert) =>
             /\ computes'.bertscore = 0
             /\ ~BertLoaded => ~BertLoaded'
             /\ metrics' # NoMetrics => metrics'.bert_score = 0
             /\ response'.metrics # NoMetrics => response'.metrics.bert_score = 0
             /\ \A i \in 1..Len(results') :
                   results'[i].success => results'[i].bert_score = 0]_vars

\* a call without BERTScore answered with the sentinel after an earlier call
\* had loaded the backend
C10_Witness ==
    /\ pc = "done"
    /\ req.kind = "evaluate_single"
    /\ ~req.calculate_bert
    /\ response.status = 200
    /\ response.metrics.bert_score = 0
    /\ BertLoaded
    /\ loads.bertscore = 1

\* C10 as stated: the first call that has calculate_bert true loads the
\* backend, so after any evaluate_single call with calculate_bert true the
\* backend is loaded.
C10_FirstBertCallLoads ==
    (pc = "done" /\ req.kind = "evaluate_single" /\ req.calculate_bert) => BertLoaded

\* C12: clean_text is idempotent: cleaning what clean_text returned gives the
\* same text again, whatever mix of \r, \n, tabs, spaces and blank lines the
\* input had.
C12_CleanIdempotent ==
    (tin.op = "clean_text" /\ tout.calls = 2) => tout.again = tout.text

\* a carriage return, a tab and a blank line, all changed by the first call
C12_Witness ==
    /\ tin.op = "clean_text"
    /\ tout.calls = 2
    /\ tin.text = <<"a", "\r", "\t", "\n", "a">>
    /\ tout.text = <<"a", "\n", "a">>
    /\ tout.again = tout.text

IsPrefixOf(s, t) == Len(s) <= Len(t) /\ s = SubSeq(t, 1, Len(s))

\* C13: truncate_text returns the text itself when it has at most max_chars
\* characters, and otherwise a prefix of it of at most max_chars characters.
C13_TruncateBound ==
    (tin.op = "truncate_text" /\ tout.calls = 1) =>
       IF Len(tin.text) <= tin.n
       THEN tout.text = tin.text
       ELSE /\ Len(tout.text) <= tin.n
            /\ IsPrefixOf(tout.text, tin.text)

\* an over-long text cut back to its last sentence mark, short of the budget
C13_Witness ==
    /\ tin.op = "truncate_text"
    /\ tout.calls = 1
    /\ Len(tin.text) > tin.n
    /\ Len(tout.text) < tin.n
    /\ tout.text # <<>>
    /\ tout.text[Len(tout.text)] \in {".", "?"}

\* number of places where the word sequence ph occurs in ws
Occurrences(ph, ws) ==
    Cardinality({i \in 1..(Len(ws) - Len(ph) + 1) : SubSeq(ws, i, i + Len(ph) - 1) = ph})

\* a is b with some elements left out
RECURSIVE IsSubsequence(_, _)
IsSubsequence(a, b) ==
    IF a = <<>> THEN TRUE
    ELSE IF b = <<>> THEN FALSE
    ELSE IF Head(a) = Head(b) THEN IsSubsequence(Tail(a), Tail(b))
    ELSE IsSubsequence(a, Tail(b))

RepetitionDone == tin.op = "remove_repetition" /\ tout.calls = 1

\* the phrase occurs once in the output and the words around it are all there,
\* in order
Collapsed ==
    /\ Occurrences(tin.parts[2], Words(tout.text)) = 1
    /\ IsSubsequence(tin.parts[1] \o tin.parts[2] \o tin.parts[3], Words(tout.text))

\* C11 as stated: whenever a 6-word phrase (at least 10 characters when joined)
\* occurs three times in a row in the input, the output of remove_repetition
\* contains the phrase exactly once and keeps every other word, in order.
C11_RepeatedPhraseCollapses ==
    (RepetitionDone /\ Len(Join(tin.parts[2], " ")) >= min_repeat_length) => Collapsed

AllDistinct(ws) == \A i, j \in 1..Len(ws) : ws[i] = ws[j] => i = j

\* C11 as amended: when the words of the phrase and the words around it are
\* pairwise distinct and the phrase has a word of two or more characters, the
\* output contains the phrase exactly once and keeps every other word, in
\* order; no word is added, and two words of the repeated phrase are left
\* over after it.
C11_DistinctPhraseCollapses ==
    (/\ RepetitionDone
     /\ AllDistinct(tin.parts[1] \o tin.parts[2] \o tin.parts[3])
     /\ \E k \in 1..6 : Len(tin.parts[2][k]) >= 2)
    => /\ Collapsed
       /\ IsSubsequence(Words(tout.text), Words(tin.text))
       /\ Len(Words(tout.text)) = Len(tin.parts[1]) + 6 + 2 + Len(tin.parts[3])

\* a phrase with one two-letter word between other words, collapsed
C11_Witness ==
    /\ RepetitionDone
    /\ tin.parts[1] = <<Rep(1, "x")>>
    /\ tin.parts[2] = <<Rep(1, "a"), Rep(1, "b"), Rep(2, "c"), Rep(1, "d"), Rep(1, "e"),
                        Rep(1, "f")>>
    /\ tin.parts[3] = <<Rep(1, "z")>>
    /\ Collapsed
    /\ Len(Words(tout.text)) = 10

\* evaluate_single(x, x, calculate_bert = False) has returned
ScoredAgainstItself ==
    /\ pc = "done"
    /\ req.kind = "evaluate_single"
    /\ ~req.calculate_bert
    /\ req.predictions = req.references
    /\ req.predictions[1] # <<>>
    /\ response.status = 200

NTokens(x) == Len(Words(ViTokenize(x)))

Upload == req.kind \in {"batch_upload", "evaluate_file"}

\* the upload got past the router's checks and parse_file found a requested
\* column absent from the (trimmed) column names
ColumnAbsent ==
    /\ Upload
    /\ req.ext \in SupportedExts
    /\ req.kind = "batch_upload" => req.model \in ModelType
    /\ \/ req.text_column \notin Columns(req.cols)
       \/ req.reference_column # NoColumn /\ req.reference_column \notin Columns(req.cols)

\* C15: column names are trimmed before the lookup; an upload whose text (or
\* summary) column or whose reference column is absent is answered with an
\* error that names the requested column and lists the available columns, and
\* no row is processed for it: no result, no inference call, no evaluation.
C15_MissingColumnNamedAndListed ==
    /\ (Upload /\ pc = "row") =>
          /\ req.text_column \in {Strip(c) : c \in req.cols}
          /\ req.reference_column # NoColumn =>
                req.reference_column \in {Strip(c) : c \in req.cols}
    /\ (ColumnAbsent /\ pc # "idle") =>
          /\ pc = "done"
          /\ response.status = 400
          /\ response.detail.column =
                (IF req.text_column \notin Columns(req.cols)
                 THEN req.text_column ELSE req.reference_column)
          /\ response.detail.available = Columns(req.cols)
          /\ results = <<>>
          /\ posts = 0
          /\ computes = NoLoads

\* C16: an upload whose filename does not end in .csv, .xlsx or .xls is
\* rejected with a client error on both upload entry points, before the
\* file's content is read or parsed, and produces no row result.
C16_UnsupportedFileRejectedUnread ==
    (Upload /\ req.ext \notin {".csv", ".xlsx", ".xls"} /\ pc # "idle") =>
        /\ pc = "done"
        /\ response.status = 400
        /\ ~req.file_read
        /\ results = <<>>
        /\ response.total_items = 0

C16_Witness ==
    /\ req.kind = "evaluate_file"
    /\ req.ext = ".txt"
    /\ Len(req.rows) > 0
    /\ pc = "done"
    /\ response.status = 400
    /\ ~req.file_read

RowLoop == Upload /\ pc \notin {"idle", "done"}

\* the rows of the upload as the loop reads them
RowInput(i) ==
    IF req.kind = "batch_upload"
    THEN [text |-> str(req.rows[i][req.text_column]), summary |-> <<>>]
    ELSE [text |-> <<>>, summary |-> ScoreCell(req.rows[i], req.text_column)]

\* C17: the rows of an upload are handled strictly one after the other: at
\* most one inference call is in flight, a row's call starts only when every
\* earlier row has its result, and the results stand in row order, each with
\* the index of its row.
C17_RowsInOrderOneAtATime ==
    /\ inflight <= 1
    /\ Upload =>
          /\ \A i \in 1..Len(results) :
                /\ results[i].index = i - 1
                /\ i <= Len(req.rows)
                /\ req.kind = "batch_upload" =>
                      results[i].original_text = RowInput(i).text
                /\ req.kind = "evaluate_file" =>
                      results[i].summary = RowInput(i).summary
    /\ RowLoop =>
          /\ Len(results) = idx - 1
          /\ inflight > 0 => pc = "wait"

C17_Witness ==
    /\ req.kind = "batch_upload"
    /\ pc = "wait"
    /\ inflight = 1
    /\ idx = 2
    /\ Len(results) = 1
    /\ results[1].index = 0

\* run r gets the URL for the POST of its first row
FirstUrl(r) ==
    /\ run[r].pc \in {"url", "get"}
    /\ run[r].row = 1
    /\ run'[r].pc = "send"

\* C18 as stated: concurrent runs share no mutable state other than the
\* metric backends, so the result of a run cannot depend on state written by
\* another run or request: the server a run turns to is the one the Gist
\* names when the run asks, as it is for a run alone in a fresh process.
C18_RunsIndependent ==
    [][\A r \in Runs : FirstUrl(r) => run'[r].url = gist]_vars

\* C18 as amended: the runs also share the ColabClient's cached server URL. A
\* run posts to the cached URL whenever there is one, whoever wrote it, and
\* asks the Gist (and caches the answer) only when there is none; a step of
\* one run changes nothing else of the other.
C18_RunsShareCachedUrl ==
    [][\A r \in Runs :
         /\ (run[r].pc = "url" /\ run'[r] # run[r] /\ cached_url # "") =>
               /\ run'[r].pc = "send"
               /\ run'[r].url = cached_url
               /\ cached_url' = cached_url
         /\ (run[r].pc = "get" /\ run'[r].pc = "send") =>
               /\ run'[r].url = gist
               /\ cached_url' = gist
         /\ run'[r] # run[r] => \A q \in Runs \ {r} : run'[q] = run[q]]_vars

C18_Witness ==
    /\ run["A"].pc = "wait"
    /\ run["B"].pc = "send"
    /\ run["B"].row = 1
    /\ run["B"].url = "url1"
    /\ cached_url = "url1"
    /\ gist = "url2"

\* a cell that is missing or holds only white space
Blank(cell) == cell = NaN \/ \A k \in 1..Len(cell) : IsSpace(cell[k])

EvaluationOnly == req.kind = "evaluate_file" /\ pc \in {"row", "done"} /\ req.file_read

\* C19: in evaluation-only mode a row whose summary or reference cell is
\* missing or blank is still passed to the scorer, with the empty string, and
\* yields a BatchItemResult at its own position: no row is skipped, the i-th
\* result belongs to the i-th row, and at the end total_items = len(results)
\* = number of rows.
C19_BlankRowsScoredInPlace ==
    (EvaluationOnly /\ response.status # 400) =>
        /\ Len(results) = idx - 1
        /\ computes.rouge = Len(results)
        /\ \A i \in 1..Len(results) :
              LET summ == RowGet(req.rows[i], req.text_column)
                  ref == RowGet(req.rows[i], req.reference_column)
              IN  /\ results[i].index = i - 1
                  /\ Blank(summ) => results[i].summary = <<>>
                  /\ Blank(ref) => results[i].reference_summary = <<>>
                  /\ ~Blank(summ) => results[i].summary = Strip(summ)
                  /\ ~Blank(ref) => results[i].reference_summary = Strip(ref)
                  /\ results[i].success => results[i].rouge1 # NoMetric
        /\ pc = "done" =>
              /\ response.total_items = Len(results)
              /\ Len(results) = Len(req.rows)

C19_Witness ==
    /\ EvaluationOnly
    /\ pc = "done"
    /\ response.status = 200
    /\ Len(req.rows) = 2
    /\ Blank(RowGet(req.rows[1], req.text_column))
    /\ RowGet(req.rows[1], req.reference_column) = NaN
    /\ results[1].success
    /\ ~Blank(RowGet(req.rows[2], req.text_column))
    /\ response.total_items = 2

DateDone == tin.op = "fix_date_format" /\ tout.calls = 1
Context == tin.parts[1]
Digits == tin.parts[2]
Rest == tin.parts[3]

\* the run stands alone: no letter, digit or underscore touches it
Standalone ==
    /\ Context = <<>> \/ ~IsWordChar(Context[Len(Context)])
    /\ Rest = <<>> \/ ~IsWordChar(Rest[1])

\* the run comes directly after a cue word and white space, and ends there
AfterCueWord ==
    /\ \E w \in CueWords, k \in 1..Len(Context) :
         /\ Len(Context) >= Len(w) + k
         /\ \A j \in 1..k : IsSpace(Context[Len(Context) - j + 1])
         /\ \A j \in 1..Len(w) : Lower(Context[Len(Context) - k - Len(w) + j]) = w[j]
    /\ Rest = <<>> \/ ~IsWordChar(Rest[1])

IsDay(s) == 1 <= int(s) /\ int(s) <= 31
IsOneDigitDay(s) == 1 <= int(s) /\ int(s) <= 9
IsMonth(s) == 1 <= int(s) /\ int(s) <= 12
IsOneDigitMonth(s) == 1 <= int(s) /\ int(s) <= 9
Dated(day, month, year) == day \o <<"/">> \o month \o <<"/">> \o year
Rewritten(as) == tout.text = Context \o as \o Rest

\* C20: the date repair of vit5 rewrites a standalone 7-digit run as dd/m/yyyy
\* when digits 1-2 are a day 1..31 and digit 3 a month 1..9, otherwise as
\* d/mm/yyyy when digit 1 is a day 1..9 and digits 2-3 a month 1..12; a
\* standalone 8-digit run as dd/mm/yyyy when the day is 1..31 and the month
\* 1..12; a 3- or 4-digit run directly after a cue word as dd/m or dd/mm under
\* the same checks; and leaves a run that passes no check as it is. "ngày
\* 1852023" gives "ngày 18/5/2023" and "ngày 206" gives "ngày 20/6".
C20_DateRepair ==
    DateDone =>
      LET d == Digits
          p(a, b) == SubSeq(d, a, b)
      IN
      /\ (Len(d) = 7 /\ Standalone) =>
            IF IsDay(p(1, 2)) /\ IsOneDigitMonth(p(3, 3))
            THEN Rewritten(Dated(p(1, 2), p(3, 3), p(4, 7)))
            ELSE IF IsOneDigitDay(p(1, 1)) /\ IsMonth(p(2, 3))
            THEN Rewritten(Dated(p(1, 1), p(2, 3), p(4, 7)))
            ELSE Rewritten(d)
      /\ (Len(d) = 8 /\ Standalone) =>
            IF IsDay(p(1, 2)) /\ IsMonth(p(3, 4))
            THEN Rewritten(Dated(p(1, 2), p(3, 4), p(5, 8)))
            ELSE Rewritten(d)
      /\ (Len(d) = 3 /\ AfterCueWord) =>
            IF IsDay(p(1, 2)) /\ IsOneDigitMonth(p(3, 3))
            THEN Rewritten(p(1, 2) \o <<"/">> \o p(3, 3))
            ELSE Rewritten(d)
      /\ (Len(d) = 4 /\ AfterCueWord) =>
            IF IsDay(p(1, 2)) /\ IsMonth(p(3, 4))
            THEN Rewritten(p(1, 2) \o <<"/">> \o p(3, 4))
            ELSE Rewritten(d)
      /\ tin.text = <<"n", "g", "à", "y", " ", "1", "8", "5", "2", "0", "2", "3">> =>
            tout.text = <<"n", "g", "à", "y", " ", "1", "8", "/", "5", "/", "2", "0", "2", "3">>
      /\ tin.text = <<"n", "g", "à", "y", " ", "2", "0", "6">> =>
            tout.text = <<"n", "g", "à", "y", " ", "2", "0", "/", "6">>

C20_Witness ==
    /\ DateDone
    /\ Context = <<"N", "g", "à", "y", " ", "\t">>
    /\ Digits = <<"1", "1", "2", "2", "0", "2", "3">>
    /\ tout.text = Context \o <<"1", "1", "/", "2", "/", "2", "0", "2", "3">> \o Rest

\* both ways of splitting a 7-digit run pass the range checks
Ambiguous ==
    /\ Len(Digits) = 7
    /\ IsDay(SubSeq(Digits, 1, 2)) /\ IsOneDigitMonth(SubSeq(Digits, 3, 3))
    /\ IsOneDigitDay(SubSeq(Digits, 1, 1)) /\ IsMonth(SubSeq(Digits, 2, 3))

\* C21: the date repair of vit5 returns an ambiguous 7-digit run (one that
\* both dd/m/yyyy and d/mm/yyyy fit) as it was.
C21_AmbiguousUnchanged ==
    (DateDone /\ Standalone /\ Ambiguous) => Rewritten(Digits)

\* a preprocessor has returned
Preprocessed(strategy) == tin.op = strategy /\ tout.calls = 1

\* C22: phobert_vit5 preprocessing returns at most 50 sentences: the first
\* min(n, 50) of the n segmented sentences (the sentences of the text longer
\* than 5 characters) in their order, num_sentences being the length of the
\* returned list; 120 sentences give 50.
C22_AtMostFiftySentences ==
    Preprocessed("PhoBertViT5Preprocessor") =>
      LET segmented == SelectSeq(tin.parts, LAMBDA sentence : Len(sentence) > 5)
          n == Len(segmented)
          kept == IF n < 50 THEN n ELSE 50
      IN  /\ Len(tout.info.sentences) <= 50
          /\ tout.info.sentences = SubSeq(segmented, 1, kept)
          /\ tout.info.num_sentences = Len(tout.info.sentences)
          /\ n = 120 => tout.info.num_sentences = 50

C22_Witness ==
    /\ Preprocessed("PhoBertViT5Preprocessor")
    /\ Len(tin.parts) = 120
    /\ \A k \in 1..120 : Len(tin.parts[k]) > 5
    /\ tout.info.num_sentences = 50
    /\ tout.info.sentences[50] = tin.parts[50]

\* the text between the white space around it: what clean_text leaves of it
Cleaned == SubSeq(tin.text, Len(tin.parts[1]) + 1, Len(tin.text) - Len(tin.parts[1]))
SummarizePrefix == <<"s", "u", "m", "m", "a", "r", "i", "z", "e", ":", " ">>

\* the result of preprocessing under a budget of so many characters: the flag
\* is set exactly when the cleaned text is longer, and the text sent on is
\* then a prefix of the cleaned text within the budget, else all of it
WithinBudget(sent, budget) ==
    /\ tout.info.was_truncated <=> Len(Cleaned) > budget
    /\ tout.info.processed_length = Len(sent)
    /\ IsPrefixOf(sent, Cleaned)
    /\ tout.info.was_truncated => Len(sent) <= budget
    /\ ~tout.info.was_truncated => sent = Cleaned

\* C28: vit5 preprocessing (budget 3000 characters whatever max_length is)
\* and qwen preprocessing (budget 6000) return for over-long input too;
\* was_truncated is true exactly when the cleaned text is longer than the
\* budget, and the text sent on (before the prefix "summarize: " of vit5)
\* then has at most budget characters.
C28_TruncationFlagsOnly ==
    /\ Preprocessed("ViT5Preprocessor") =>
          /\ IsPrefixOf(SummarizePrefix, tout.text)
          /\ WithinBudget(SubSeq(tout.text, Len(SummarizePrefix) + 1, Len(tout.text)), 3000)
    /\ Preprocessed("QwenPreprocessor") => WithinBudget(tout.text, 6000)

C28_Witness ==
    /\ Preprocessed("ViT5Preprocessor")
    /\ tin.n = 512
    /\ Len(Cleaned) = 3001
    /\ tout.info.was_truncated
    /\ tout.info.processed_length = 2000

\* QwenPostprocessor.postprocess has returned
QwenDone == tin.op = "QwenPostprocessor" /\ tout.calls = 1

\* text holds open ... close, whatever the case of the letters
Holds(text, pattern) ==
    \E i \in 1..Len(text) :
       /\ StartsWithAt(text, i, pattern.open)
       /\ \E j \in (i + Len(pattern.open))..Len(text) : StartsWithAt(text, j, pattern.close)

\* C23: the summary the Qwen postprocessor returns holds no bracketed
\* annotation "[...]", no citation "(nguồn: ...)" and no attribution clause
\* "Theo ... cho biết,", whatever the raw output was.
C23_NoArtifactLeft ==
    QwenDone => \A k \in 1..Len(hallucination_patterns) :
                   ~Holds(tout.text, hallucination_patterns[k])

\* C24: the summary the Qwen postprocessor returns does not begin, in any
\* case of the letters, with one of the lead-in phrases.
C24_NoLeadInLeft ==
    QwenDone => \A k \in 1..Len(prefixes_to_remove) :
                   ~StartsWithAt(tout.text, 1, prefixes_to_remove[k])

\* the 0-based position of the last '.', '!' or '?' of the text, as
\* str.rfind counts, -1 when it has none
LastMark ==
    LET marks == {i \in 1..Len(tin.text) : tin.text[i] \in {".", "!", "?"}}
    IN  IF marks = {} THEN -1 ELSE (CHOOSE i \in marks : \A j \in marks : j <= i) - 1

\* C27: ensure_complete_sentences returns a prefix of its input: when the
\* position of the last '.', '!' or '?' is greater than half the length of the
\* text the result ends exactly at that mark, and is more than half of the
\* text; otherwise the text is returned as it was.
C27_CutAtLastMarkPastMidpoint ==
    (tin.op = "ensure_complete_sentences" /\ tout.calls = 1) =>
       /\ IsPrefixOf(tout.text, tin.text)
       /\ IF 2 * LastMark > Len(tin.text)
          THEN /\ tout.text = SubSeq(tin.text, 1, LastMark + 1)
               /\ 2 * Len(tout.text) > Len(tin.text)
          ELSE tout.text = tin.text

C27_Witness ==
    /\ tin.op = "ensure_complete_sentences"
    /\ tout.calls = 1
    /\ tin.text = <<"a", "!", "a", ".", "a">>
    /\ tout.text = <<"a", "!", "a", ".">>

\* the words of the text handed to remove_repetition, and its windows
InputWords == tin.parts
InputWindow(i) == Join(Window(InputWords, i), " ")

\* the window at i (0-based) has 5 words and at least 10 characters and stood
\* at an earlier position too
RepeatedWindow(i) ==
    /\ Len(Window(InputWords, i)) = 5
    /\ Len(InputWindow(i)) >= 10
    /\ \E j \in 0..(i - 1) : InputWindow(j) = InputWindow(i)

\* a turn of the loop that keeps no word leaves out the 5 words of a
\* repeated window
DropsRepeatedWindow ==
    (loop.pc = "while" /\ loop'.pc = "while" /\ loop'.result = loop.result) =>
        /\ RepeatedWindow(loop.i)
        /\ loop'.i = loop.i + 5

\* the words kept so far, and the words returned, are the input's in order
KeepsWordsInOrder ==
    /\ IsSubsequence(loop.result, InputWords)
    /\ loop.pc = "returned" =>
          /\ Words(tout.text) = loop.result
          /\ (\A i \in 0..Len(InputWords) : ~RepeatedWindow(i)) => Words(tout.text) = InputWords

\* C29: remove_repetition returns; the words it returns are a subsequence of
\* the words of its input; it leaves words out only as the 5 words of a
\* window of at least 10 characters that was seen before, so that an input
\* with no such window keeps all its words.
C29_RepetitionTerminatesKeepingOrder ==
    /\ []KeepsWordsInOrder
    /\ [][DropsRepeatedWindow]_vars
    /\ <>(loop.pc = "returned" /\ tout.calls = 1)

C29_Witness ==
    /\ loop.pc = "returned"
    /\ InputWords = [k \in 1..6 |-> <<"a", "b">>]
    /\ Words(tout.text) = <<<<"a", "b">>>>

\* POST /evaluation/batch has been answered
BatchEvaluated == pc = "done" /\ req.kind = "evaluate_batch"

\* C26: evaluate_batch makes one ROUGE computation and one BLEU computation
\* over the whole lists, however many pairs there are, makes at most one
\* BERTScore computation and none unless calculate_bert is true, and returns
\* total_samples = len(predictions).
C26_WholeBatchComputedOnce ==
    BatchEvaluated =>
       /\ computes.rouge <= 1 /\ computes.bleu <= 1 /\ computes.bertscore <= 1
       /\ ~req.calculate_bert => computes.bertscore = 0
       /\ response.status = 200 =>
             /\ computes.rouge = 1
             /\ computes.bleu = 1
             /\ computes.bertscore = (IF req.calculate_bert THEN 1 ELSE 0)
             /\ response.metrics.total_samples = Len(req.predictions)

C26_Witness ==
    /\ BatchEvaluated
    /\ response.status = 200
    /\ Len(req.predictions) = 2
    /\ req.predictions[1] # req.predictions[2]
    /\ req.calculate_bert
    /\ computes = [rouge |-> 1, bleu |-> 1, bertscore |-> 1]
    /\ response.metrics.total_samples = 2

\* the stages of one summarize call, as far as it got
StagesInOrder ==
    \* a request is sent to the server only after preprocessing succeeded
    /\ (posts > 0 \/ inflight > 0) => pre.strategy # "none"
    /\ posts <= 1
    \* a summary is postprocessed only after the one request came back with it
    /\ summary.by # "none" =>
          /\ posts = 1 /\ inflight = 0
          /\ outcome.kind \in {"ok", "ok_nosummary"}
          /\ summary.by = get_postprocessor(req.model).strategy
    \* what summarize returns without raising is the postprocessor's output
    /\ (pc = "ret" /\ exc = NoExc) => summary.by # "none"
    /\ (pc = "done" /\ req.kind = "summarize" /\ response.status = 200) =>
          response.summary.by = get_postprocessor(req.model).strategy

\* one step of a summarize call: preprocess, then the request, then postprocess
StageStep ==
    /\ pre' # pre /\ pre' # NoPre => posts = 0 /\ summary = NoSummary
    /\ posts' > posts => pre.strategy # "none" /\ summary = NoSummary
    /\ (summary'.by # summary.by /\ summary'.by # "none") => pc = "postproc" /\ pc' = "ret"

\* C25: summarize preprocesses, makes one inference call, postprocesses, in
\* this order: the server is not called when preprocessing fails, the
\* postprocessor runs only on a response the call returned, and the summary
\* handed back is the postprocessor's output.
C25_PreprocessCallPostprocess ==
    [][StagesInOrder /\ StagesInOrder' /\ StageStep]_vars

C25_Witness ==
    /\ pc = "done"
    /\ req.kind = "summarize"
    /\ req.model = "qwen"
    /\ response.status = 200
    /\ posts = 1
    /\ pre.strategy = "QwenPreprocessor"
    /\ response.summary.by = "QwenPostprocessor"

\* one step taken while a URL is cached: a summarize call that asks for the
\* URL goes on with the cached one without a GET of the Gist, and the cached
\* URL changes in no step of a run, only in a health check
KeepsCachedUrl ==
    cached_url # "" =>
       /\ \A r \in Runs : (run[r].pc = "url" /\ run'[r] # run[r]) =>
             /\ run'[r].pc = "send"
             /\ run'[r].url = cached_url
       /\ cached_url' # cached_url => run' = run

\* C30: once get_colab_url has succeeded with a non-empty URL, a later
\* summarize call reuses the cached URL without contacting the Gist, and only
\* the forced refresh of a health check replaces it; a refresh that fails
\* leaves it as it was.
C30_CachedUrlKept == [][KeepsCachedUrl]_vars

====
